---- MODULE Spec2Model ----
(***************************************************************************)
(* Model of repoyear's backend repository scanner:                         *)
(*   src/backend/src/repos/config.rs  (Config, TreeConfig, the iterators)  *)
(*   src/backend/src/repos/scan.rs    (scan, get_default_branch)           *)
(*   src/backend/src/main.rs          (the batch scan command)             *)
(*                                                                         *)
(* Strings are sequences of tokens.  A token is an atomic piece of text;   *)
(* the separator "/" is always a token of its own, so that splitting on    *)
(* '/', prefix tests and path component parsing work on the token level    *)
(* exactly as they work on the character level.                            *)
(***************************************************************************)
EXTENDS Naturals, Sequences, FiniteSets, TLC

VARIABLES
    repo,        \* the repository handed to get_default_branch / scan
    out,         \* the value returned by the function under study
    pc,          \* position of the driver: which call comes next
    fs,          \* the file system the batch scan walks
    config,      \* Config.repos: a sequence of TreeConfig
    config_iter, \* ConfigRepoIter.config_iter: index of the next TreeConfig
    tree_iter,   \* ConfigRepoIter.tree_iter: <<>> (None) or <<TreeRepoIter>>
    result,      \* the mapping the batch scan collects: name -> timestamps
    warnings,    \* the warnings emitted so far, in order
    items,       \* history: every item the iterator has yielded, in order,
                 \* with the index of the tree it came from
    opened,      \* history: every path handed to Repository::open, in order,
                 \* with the index of the tree being walked
    scan_path,   \* the path handed to scan
    handles      \* history: the calls of ConfigRepoIter::next, and every
                 \* repository handle as it is acquired and as it is dropped

vars == <<repo, out, pc, fs, config, config_iter, tree_iter, result,
          warnings, items, opened, scan_path, handles>>

-----------------------------------------------------------------------------
(* Bounds *)

MaxCommits == 3   \* commits in a repository's history
MaxSpecial == 2   \* directories of the scanned tree that are not plain
MaxTrees == 2     \* TreeConfig entries in a Config
MaxPolls == 2     \* calls of ConfigRepoIter::next that are answered None
MaxTarget == 7    \* tokens in a symbolic target handed to splitn

-----------------------------------------------------------------------------
(* Option and Result values.  An Option is a sequence of length 0 or 1.    *)
(* Every Result carries `calls`: the library calls made while computing    *)
(* it, in order.                                                           *)

None == <<>>
Some(v) == <<v>>
IsSome(o) == Len(o) = 1

Ok(v, c) == [tag |-> "Ok", value |-> v, calls |-> c]
Err(e, c) == [tag |-> "Err", error |-> e, calls |-> c]

\* A git2::Error: its ErrorCode and the call that raised it.
GitError(code, call) == [kind |-> "git", code |-> code, call |-> call]

\* anyhow::anyhow!(message)
Anyhow(message) == [kind |-> "anyhow", message |-> message]

\* let value = ...; Body(value).  The value is computed once, before the
\* body is.
Let(value, Body(_)) == CHOOSE y \in {Body(x) : x \in {value}} : TRUE

-----------------------------------------------------------------------------
(* String helpers *)

StartsWith(s, prefix) ==
    /\ Len(s) >= Len(prefix)
    /\ SubSeq(s, 1, Len(prefix)) = prefix

\* Index of the first "/" token of s, or 0.
RECURSIVE FindSlash(_, _)
FindSlash(s, i) ==
    IF i > Len(s) THEN 0
    ELSE IF s[i] = "/" THEN i
    ELSE FindSlash(s, i + 1)

\* A buggy splitn that ignores the limit, as str::split does.
RECURSIVE splitn_unlimited(_, _)
splitn_unlimited(n, s) ==
    IF n = 0 THEN <<>>
    ELSE LET i == FindSlash(s, 1) IN
         IF i = 0 THEN <<s>>
         ELSE <<SubSeq(s, 1, i - 1)>> \o splitn_unlimited(n, SubSeq(s, i + 1, Len(s)))

\* str::splitn(n, '/'): at most n pieces, the last one holding the rest.
RECURSIVE splitn(_, _)
splitn(n, s) ==
    IF n = 0 THEN <<>>
    ELSE LET i == FindSlash(s, 1) IN
         IF n = 1 \/ i = 0 THEN <<s>>
         ELSE <<SubSeq(s, 1, i - 1)>> \o splitn(n - 1, SubSeq(s, i + 1, Len(s)))

-----------------------------------------------------------------------------
(* The git2 library, as far as scan.rs uses it.  A repository is a record  *)
(* of what each library call answers:                                      *)
(*   references          find_reference: name -> NotFound, Error, a direct *)
(*                       reference, or a symbolic one with its target      *)
(*   config_open         whether repo.config() succeeds                    *)
(*   init_default_branch get_string("init.defaultBranch")                  *)
(*   revparse            revparse_single: name -> NotFound, Error, an oid  *)
(*   walk_setup          which of revwalk(), set_sorting(), push() fails   *)
(*   remotes             remotes() and find_remote()                       *)
(*   history             the commit graph                                  *)

Call(fn, arg) == [fn |-> fn, arg |-> arg]

RefsRemotes == <<"refs", "/", "remotes", "/">>
RefsHeadsMain == <<"refs", "/", "heads", "/", "main">>
RefsHeadsMaster == <<"refs", "/", "heads", "/", "master">>
HEAD == <<"HEAD">>

NotFoundRef == [tag |-> "NotFound", target |-> <<>>]
ErrorRef == [tag |-> "Error", target |-> <<>>]
DirectRef == [tag |-> "Direct", target |-> <<>>]
SymbolicRef(t) == [tag |-> "Symbolic", target |-> t]

NotFoundRev == [tag |-> "NotFound", oid |-> 0]
ErrorRev == [tag |-> "Error", oid |-> 0]
OkRev(o) == [tag |-> "Ok", oid |-> o]

\* Repository::find_reference
find_reference(r, name) ==
    IF name \in DOMAIN r.references THEN r.references[name] ELSE NotFoundRef

\* Reference::symbolic_target
symbolic_target(reference) ==
    IF reference.tag = "Symbolic" THEN Some(reference.target) ELSE None

\* Repository::revparse_single
revparse_single(r, name) ==
    IF name \in DOMAIN r.revparse THEN r.revparse[name] ELSE NotFoundRev

-----------------------------------------------------------------------------
(* scan.rs: ref_to_oid, remote_head_to_local_branch, get_default_branch *)

\* A buggy ref_to_oid: every error is taken as "not found".
ref_to_oid_swallow(r, name) ==
    LET call == Call("revparse_single", name)
        object == revparse_single(r, name)
    IN  IF object.tag = "Ok" THEN Ok(Some(object.oid), <<call>>)
        ELSE Ok(None, <<call>>)

ref_to_oid(r, name) ==
    LET call == Call("revparse_single", name)
        object == revparse_single(r, name)
    IN  CASE object.tag = "Ok" -> Ok(Some(object.oid), <<call>>)
          [] object.tag = "NotFound" -> Ok(None, <<call>>)
          [] OTHER -> Err(GitError("Other", call), <<call>>)

\* The panic of a failed assert!.
Panic(message, c) == [tag |-> "Panic", message |-> message, calls |-> c]

\* A buggy remote_head_to_local_branch: it takes the third piece of the
\* target, the remote's name, for the branch.
remote_head_to_local_branch_remote_name(r, origin) ==
    LET name == RefsRemotes \o origin \o <<"/", "HEAD">>
        call == Call("find_reference", name)
        reference == find_reference(r, name)
        target == symbolic_target(reference)
    IN  CASE reference.tag = "NotFound" -> Ok(None, <<call>>)
          [] reference.tag = "Error" -> Err(GitError("Other", call), <<call>>)
          [] OTHER ->
               IF IsSome(target) /\ StartsWith(target[1], RefsRemotes)
               THEN LET iter == splitn(4, target[1]) IN
                    IF Len(iter) >= 3
                    THEN Ok(Some(iter[3]), <<call>>)
                    ELSE Ok(None, <<call>>)
               ELSE Ok(None, <<call>>)

remote_head_to_local_branch(r, origin) ==
    LET name == RefsRemotes \o origin \o <<"/", "HEAD">>
        call == Call("find_reference", name)
        reference == find_reference(r, name)
        target == symbolic_target(reference)
    IN  CASE reference.tag = "NotFound" -> Ok(None, <<call>>)
          [] reference.tag = "Error" -> Err(GitError("Other", call), <<call>>)
          [] OTHER ->
               IF IsSome(target) /\ StartsWith(target[1], RefsRemotes)
               THEN LET iter == splitn(4, target[1]) IN
                    IF Len(iter) >= 4
                    THEN IF Len(iter) = 4
                         THEN Ok(Some(iter[4]), <<call>>)
                         ELSE Panic("bug in splitn", <<call>>)
                    ELSE Ok(None, <<call>>)
               ELSE Ok(None, <<call>>)

\* `before` are the calls made before r; the calls of r are appended.
After(before, r) == [r EXCEPT !.calls = before \o @]

\* A step of the chain ends the resolution when it failed (the `?`
\* operator) or found a commit.
Returns(step) == step.tag # "Ok" \/ IsSome(step.value)

\* What get_default_branch returns when `step` ends the resolution.
Final(step) ==
    IF step.tag = "Ok" THEN Ok(step.value[1], step.calls) ELSE step

\* scan.rs lines 65-69 and 71-75: the branch a remote's HEAD names.
RemoteHeadStep(r, origin, before) ==
    Let(After(before, remote_head_to_local_branch(r, origin)), LAMBDA branch :
    IF branch.tag # "Ok" THEN branch
    ELSE IF IsSome(branch.value)
         THEN After(branch.calls, ref_to_oid(r, branch.value[1]))
         ELSE Ok(None, branch.calls))

\* scan.rs lines 77-85: the init.defaultBranch configuration value.
ConfigStep(r, before) ==
    LET open == Call("config", <<>>)
        get == Call("get_string", <<"init.defaultBranch">>)
    IN  IF r.config_open # "Ok"
        THEN Err(GitError("Other", open), before \o <<open>>)
        ELSE CASE r.init_default_branch.tag = "Ok" ->
                    After(before \o <<open, get>>,
                          ref_to_oid(r, r.init_default_branch.value))
               [] r.init_default_branch.tag = "NotFound" ->
                    Ok(None, before \o <<open, get>>)
               [] OTHER ->
                    Err(GitError("Other", get), before \o <<open, get>>)

\* scan.rs lines 87-92: one branch of the final if / else if chain.
RefStep(r, name, before) == After(before, ref_to_oid(r, name))

\* A buggy get_default_branch: refs/heads/master is tried before
\* refs/heads/main.
get_default_branch_master_first(r) ==
    Let(RemoteHeadStep(r, <<"origin">>, <<>>), LAMBDA s1 :
    IF Returns(s1) THEN Final(s1) ELSE
    Let(RemoteHeadStep(r, <<"upstream">>, s1.calls), LAMBDA s2 :
    IF Returns(s2) THEN Final(s2) ELSE
    Let(ConfigStep(r, s2.calls), LAMBDA s3 :
    IF Returns(s3) THEN Final(s3) ELSE
    Let(RefStep(r, RefsHeadsMaster, s3.calls), LAMBDA s4 :
    IF Returns(s4) THEN Final(s4) ELSE
    Let(RefStep(r, RefsHeadsMain, s4.calls), LAMBDA s5 :
    IF Returns(s5) THEN Final(s5) ELSE
    Let(RefStep(r, HEAD, s5.calls), LAMBDA s6 :
    IF Returns(s6) THEN Final(s6)
    ELSE Err(Anyhow("Could not find a default branch"), s6.calls)))))))

\* A buggy get_default_branch: when nothing resolves it answers a null oid.
get_default_branch_null_oid(r) ==
    Let(RemoteHeadStep(r, <<"origin">>, <<>>), LAMBDA s1 :
    IF Returns(s1) THEN Final(s1) ELSE
    Let(RemoteHeadStep(r, <<"upstream">>, s1.calls), LAMBDA s2 :
    IF Returns(s2) THEN Final(s2) ELSE
    Let(ConfigStep(r, s2.calls), LAMBDA s3 :
    IF Returns(s3) THEN Final(s3) ELSE
    Let(RefStep(r, RefsHeadsMain, s3.calls), LAMBDA s4 :
    IF Returns(s4) THEN Final(s4) ELSE
    Let(RefStep(r, RefsHeadsMaster, s4.calls), LAMBDA s5 :
    IF Returns(s5) THEN Final(s5) ELSE
    Let(RefStep(r, HEAD, s5.calls), LAMBDA s6 :
    IF Returns(s6) THEN Final(s6)
    ELSE Ok(0, s6.calls)))))))

get_default_branch(r) ==
    Let(RemoteHeadStep(r, <<"origin">>, <<>>), LAMBDA s1 :
    IF Returns(s1) THEN Final(s1) ELSE
    Let(RemoteHeadStep(r, <<"upstream">>, s1.calls), LAMBDA s2 :
    IF Returns(s2) THEN Final(s2) ELSE
    Let(ConfigStep(r, s2.calls), LAMBDA s3 :
    IF Returns(s3) THEN Final(s3) ELSE
    Let(RefStep(r, RefsHeadsMain, s3.calls), LAMBDA s4 :
    IF Returns(s4) THEN Final(s4) ELSE
    Let(RefStep(r, RefsHeadsMaster, s4.calls), LAMBDA s5 :
    IF Returns(s5) THEN Final(s5) ELSE
    Let(RefStep(r, HEAD, s5.calls), LAMBDA s6 :
    IF Returns(s6) THEN Final(s6)
    ELSE Err(Anyhow("Could not find a default branch"), s6.calls)))))))


-----------------------------------------------------------------------------
(* The commit graph and the revision walk (git2::Revwalk, Sort::TIME).     *)
(* history = [commits, parents, ctime, atime, missing]: the commits, each  *)
(* commit's parents, commit time and author time, and the commits whose    *)
(* object cannot be read.                                                  *)

RECURSIVE Reachable(_, _, _)
Reachable(h, frontier, seen) ==
    IF frontier = {} THEN seen
    ELSE LET next == UNION {h.parents[c] : c \in frontier} \ (seen \cup frontier)
         IN  Reachable(h, next, seen \cup frontier)

\* A buggy sort: oldest commit time first.
RECURSIVE ByCommitTimeOldestFirst(_, _)
ByCommitTimeOldestFirst(h, set) ==
    IF set = {} THEN <<>>
    ELSE LET c == CHOOSE x \in set :
                    \A y \in set : \/ h.ctime[y] > h.ctime[x]
                                   \/ (h.ctime[y] = h.ctime[x] /\ y >= x)
         IN  <<c>> \o ByCommitTimeOldestFirst(h, set \ {c})

\* The commits of `set`, newest commit time first.
RECURSIVE ByCommitTime(_, _)
ByCommitTime(h, set) ==
    IF set = {} THEN <<>>
    ELSE LET c == CHOOSE x \in set :
                    \A y \in set : \/ h.ctime[y] < h.ctime[x]
                                   \/ (h.ctime[y] = h.ctime[x] /\ y <= x)
         IN  <<c>> \o ByCommitTime(h, set \ {c})

\* What the iteration of the Revwalk yields after push(start).
Revwalk(h, start) == ByCommitTime(h, Reachable(h, {start}, {}))

\* Repository::find_commit(oid).map(|commit| commit.author().when().seconds())
find_commit_seconds(h, oid) ==
    IF oid \in h.missing
    THEN Err(GitError("Other", Call("find_commit", <<>>)), <<>>)
    ELSE Ok(h.atime[oid], <<>>)

\* A buggy collect: at the first error it answers the values so far.
RECURSIVE CollectSecondsPartial(_, _, _, _)
CollectSecondsPartial(h, oids, i, acc) ==
    IF i > Len(oids) THEN Ok(acc, <<>>)
    ELSE LET seconds == find_commit_seconds(h, oids[i]) IN
         IF seconds.tag = "Err" THEN Ok(acc, <<>>)
         ELSE CollectSecondsPartial(h, oids, i + 1, Append(acc, seconds.value))

\* Iterator::collect into Result<Vec<_>, _>: the values up to the first
\* error, or that error.
RECURSIVE CollectSeconds(_, _, _, _)
CollectSeconds(h, oids, i, acc) ==
    IF i > Len(oids) THEN Ok(acc, <<>>)
    ELSE LET seconds == find_commit_seconds(h, oids[i]) IN
         IF seconds.tag = "Err" THEN seconds
         ELSE CollectSeconds(h, oids, i + 1, Append(acc, seconds.value))

-----------------------------------------------------------------------------
(* scan.rs: scan.  scan_repo is the part of scan that follows              *)
(* Repository::open: main.rs calls it with the handle the iterator opened. *)

GitHubSsh == <<"git@github.com", ":">>
GitHubHttps == <<"https://github.com", "/">>

\* The loop over the remotes (scan.rs lines 26-37), from the i-th name on.
\* Its value is Ok(TRUE) when a GitHub remote was found, Ok(FALSE) at the
\* end of the list.
RECURSIVE RemotesLoop(_, _, _)
RemotesLoop(r, i, before) ==
    IF i > Len(r.remotes.names) THEN Ok(FALSE, before)
    ELSE LET remote_name == r.remotes.names[i]
             call == Call("find_remote", <<remote_name>>)
             remote == r.remotes.find[remote_name]
         IN  IF remote.tag # "Ok"
             THEN Err(GitError("Other", call), Append(before, call))
             ELSE IF /\ IsSome(remote.url)
                     /\ \/ StartsWith(remote.url[1], GitHubSsh)
                        \/ StartsWith(remote.url[1], GitHubHttps)
                  THEN Ok(TRUE, Append(before, call))
                  ELSE RemotesLoop(r, i + 1, Append(before, call))

scan_repo(r) ==
    LET revwalk == Call("revwalk", <<>>)
        set_sorting == Call("set_sorting", <<>>)
        push == Call("push", <<>>)
        remotes == Call("remotes", <<>>)
        next == Call("next", <<>>)
    IN  IF r.walk_setup = "RevwalkError"
        THEN Err(GitError("Other", revwalk), <<revwalk>>)
        ELSE IF r.walk_setup = "SortingError"
        THEN Err(GitError("Other", set_sorting), <<revwalk, set_sorting>>)
        ELSE
        Let(After(<<revwalk, set_sorting>>, get_default_branch(r)),
            LAMBDA default_branch_oid :
        IF default_branch_oid.tag # "Ok" THEN default_branch_oid
        ELSE IF r.walk_setup = "PushError"
                   \/ default_branch_oid.value \notin r.history.commits
        THEN Err(GitError("Other", push),
                 Append(default_branch_oid.calls, push))
        ELSE IF r.remotes.tag # "Ok"
        THEN Err(GitError("Other", remotes),
                 default_branch_oid.calls \o <<push, remotes>>)
        ELSE
        Let(RemotesLoop(r, 1, default_branch_oid.calls \o <<push, remotes>>),
            LAMBDA github :
        IF github.tag # "Ok" THEN github
        ELSE IF github.value THEN Ok(<<>>, github.calls)
        ELSE After(Append(github.calls, next),
                   CollectSeconds(r.history,
                       Revwalk(r.history, default_branch_oid.value),
                       1, <<>>))))

-----------------------------------------------------------------------------
(* Paths (std::path) *)

\* Path::components, without the root directory component (HasRoot):
\* the names of the path; redundant separators are dropped.
Components(p) == SelectSeq(p, LAMBDA t : t # "/")

HasRoot(p) == Len(p) > 0 /\ p[1] = "/"

RECURSIVE JoinNames(_)
JoinNames(names) ==
    IF Len(names) = 0 THEN <<>>
    ELSE IF Len(names) = 1 THEN names
    ELSE <<names[1], "/">> \o JoinNames(Tail(names))

\* Path::join(name): a separator is added unless the path ends with one.
Join(p, name) ==
    IF Len(p) > 0 /\ p[Len(p)] = "/" THEN Append(p, name)
    ELSE p \o <<"/", name>>

\* Path::strip_prefix: the components of base must begin those of path;
\* what is left is a relative path.
strip_prefix(path, base) ==
    LET pc_ == Components(path)
        bc == Components(base)
    IN  IF /\ HasRoot(path) = HasRoot(base)
           /\ Len(bc) <= Len(pc_)
           /\ SubSeq(pc_, 1, Len(bc)) = bc
        THEN Ok(JoinNames(SubSeq(pc_, Len(bc) + 1, Len(pc_))), <<>>)
        ELSE Err("StripPrefixError", <<>>)

-----------------------------------------------------------------------------
(* config.rs: get_name *)

\* A buggy get_name: the root is cut off as a string, so the separator
\* that follows it stays in the name.
get_name_keep_separator(root, replace_root, path) ==
    IF IsSome(replace_root)
    THEN IF StartsWith(path, root)
         THEN Ok(replace_root[1] \o SubSeq(path, Len(root) + 1, Len(path)), <<>>)
         ELSE Panic("found under root, but does not have it as a prefix", <<>>)
    ELSE Ok(path, <<>>)

\* A buggy get_name: the root is stripped also when there is no
\* replace_root.
get_name_always_strip(root, replace_root, path) ==
    LET suffix == strip_prefix(path, root) IN
    IF suffix.tag = "Ok"
    THEN Ok((IF IsSome(replace_root) THEN replace_root[1] ELSE <<>>)
                \o suffix.value, <<>>)
    ELSE Panic("found under root, but does not have it as a prefix", <<>>)

get_name(root, replace_root, path) ==
    IF IsSome(replace_root)
    THEN LET suffix == strip_prefix(path, root) IN
         IF suffix.tag = "Ok"
         THEN Ok(replace_root[1] \o suffix.value, <<>>)
         ELSE Panic("found under root, but does not have it as a prefix", <<>>)
    ELSE Ok(path, <<>>)

-----------------------------------------------------------------------------
(* The file system.                                                        *)
(*   fs.dirs    real directory -> "dir", "unreadable" (read_dir fails),    *)
(*              "gitdir" (a git database: a bare repository or the .git of *)
(*              a working copy) or "badgitdir" (a git database that        *)
(*              Repository::open refuses with an error other than          *)
(*              NotFound)                                                  *)
(*   fs.files   the regular files                                          *)
(*   fs.links   symbolic link -> the real directory it points to           *)
(*   fs.content git database -> the repository in it                       *)

DotGit == ".git"

\* The order in which read_dir lists the entries of a directory.
NameOrder == <<DotGit, "a", "c", "f", "l">>

\* The path without trailing separators.
RECURSIVE Trim(_)
Trim(p) ==
    IF Len(p) > 1 /\ p[Len(p)] = "/" THEN Trim(SubSeq(p, 1, Len(p) - 1))
    ELSE p

\* The real path a path names, symbolic links followed.
Resolve(f, p) ==
    LET q == Trim(p)
        hits == {l \in DOMAIN f.links :
                    /\ StartsWith(q, l)
                    /\ (Len(q) = Len(l) \/ q[Len(l) + 1] = "/")}
    IN  IF hits = {} THEN q
        ELSE LET l == CHOOSE x \in hits : TRUE
             IN  f.links[l] \o SubSeq(q, Len(l) + 1, Len(q))

Exists(f, p) == Resolve(f, p) \in DOMAIN f.dirs \cup f.files

IsDir(f, p) == Resolve(f, p) \in DOMAIN f.dirs

IsLink(f, p) == Trim(p) \in DOMAIN f.links

\* fs::read_dir: the names in the directory, in listing order.
ReadDir(f, real) ==
    SelectSeq(NameOrder,
              LAMBDA n : Join(real, n) \in
                            DOMAIN f.dirs \cup f.files \cup DOMAIN f.links)

\* A buggy Repository::open that searches the parent directories for a
\* repository, as Repository::discover does.
RepositoryOpenSearch(f, p) ==
    LET real == Resolve(f, p)
        kind(d) == IF d \in DOMAIN f.dirs THEN f.dirs[d] ELSE "none"
        call == Call("open", p)
        above == {SubSeq(real, 1, k) : k \in 2..Len(real)}
        hits == {d \in above : kind(Join(d, DotGit)) = "gitdir" \/ kind(d) = "gitdir"}
    IN  IF hits = {}
        THEN Err(GitError("NotFound", call), <<call>>)
        ELSE LET d == CHOOSE x \in hits : \A y \in hits : Len(y) <= Len(x)
                 g == IF kind(Join(d, DotGit)) = "gitdir" THEN Join(d, DotGit) ELSE d
             IN  Ok([path |-> g, repo |-> f.content[g]], <<call>>)

\* A buggy Repository::open that opens working copies only: neither a .git
\* directory given directly nor a bare repository.
RepositoryOpenWorktreeOnly(f, p) ==
    LET real == Resolve(f, p)
        dotgit == Join(real, DotGit)
        call == Call("open", p)
    IN  IF dotgit \in DOMAIN f.dirs /\ f.dirs[dotgit] = "gitdir"
        THEN Ok([path |-> dotgit, repo |-> f.content[dotgit]], <<call>>)
        ELSE Err(GitError("NotFound", call), <<call>>)

\* Repository::open(path): the path is a working copy (it holds a .git
\* directory), or a git database itself; no other directory is searched.
RepositoryOpen(f, p) ==
    LET real == Resolve(f, p)
        dotgit == Join(real, DotGit)
        kind(d) == IF d \in DOMAIN f.dirs THEN f.dirs[d] ELSE "none"
        call == Call("open", p)
    IN  IF kind(dotgit) = "gitdir"
        THEN Ok([path |-> dotgit, repo |-> f.content[dotgit]], <<call>>)
        ELSE IF kind(real) = "gitdir"
        THEN Ok([path |-> real, repo |-> f.content[real]], <<call>>)
        ELSE IF kind(dotgit) = "badgitdir" \/ kind(real) = "badgitdir"
        THEN Err(GitError("Other", call), <<call>>)
        ELSE Err(GitError("NotFound", call), <<call>>)

\* scan.rs: scan(path)
scan(f, p) ==
    Let(RepositoryOpen(f, p), LAMBDA repository :
    IF repository.tag # "Ok" THEN repository
    ELSE After(repository.calls, scan_repo(repository.value.repo)))

-----------------------------------------------------------------------------
(* walkdir: WalkDir::new(root).follow_links(true).into_iter()              *)
(*              .filter_entry(is_dir)                                      *)
(* A walker is [start, stack]: the root not yet visited (an Option) and    *)
(* the stack of open directory listings, the deepest last.  A listing is   *)
(* [path, real, pending, err]: the directory as the walk names it, the     *)
(* real directory, the names not yet visited, and whether read_dir failed  *)
(* with an error not yet reported.                                         *)

WalkDirNew(root) == [start |-> Some(root), stack |-> <<>>]

DirEntry(p, is_dir) == [tag |-> "Ok", path |-> p, is_dir |-> is_dir]
WalkdirError(p, what) == [tag |-> "Err", path |-> p, what |-> what]

Pop(stack) == SubSeq(stack, 1, Len(stack) - 1)

\* IntoIter::skip_current_dir
skip_current_dir(w) ==
    IF Len(w.stack) > 0 THEN [w EXCEPT !.stack = Pop(@)] ELSE w

\* A buggy handle_entry: a symbolic link is reported under the path of its
\* target.
handle_entry_canonical(f, w, p) ==
    Let(Resolve(f, p), LAMBDA real :
    IF real \notin DOMAIN f.dirs \cup f.files
    THEN [item |-> Some(WalkdirError(p, "io")), walker |-> w]
    ELSE IF /\ IsLink(f, p)
            /\ real \in DOMAIN f.dirs
            /\ \E i \in 1..Len(w.stack) : w.stack[i].real = real
    THEN [item |-> Some(WalkdirError(p, "loop")), walker |-> w]
    ELSE IF real \in DOMAIN f.dirs
    THEN LET unreadable == f.dirs[real] = "unreadable"
             list == [path |-> real, real |-> real,
                      pending |-> IF unreadable THEN <<>> ELSE ReadDir(f, real),
                      err |-> unreadable]
         IN  [item |-> Some(DirEntry(real, TRUE)),
              walker |-> [w EXCEPT !.stack = Append(@, list)]]
    ELSE [item |-> Some(DirEntry(real, FALSE)), walker |-> w])

\* IntoIter::handle_entry, with the symbolic link followed and the
\* directory pushed.
handle_entry(f, w, p) ==
    Let(Resolve(f, p), LAMBDA real :
    IF real \notin DOMAIN f.dirs \cup f.files
    THEN [item |-> Some(WalkdirError(p, "io")), walker |-> w]
    ELSE IF /\ IsLink(f, p)
            /\ real \in DOMAIN f.dirs
            /\ \E i \in 1..Len(w.stack) : w.stack[i].real = real
    THEN [item |-> Some(WalkdirError(p, "loop")), walker |-> w]
    ELSE IF real \in DOMAIN f.dirs
    THEN LET unreadable == f.dirs[real] = "unreadable"
             list == [path |-> p, real |-> real,
                      pending |-> IF unreadable THEN <<>> ELSE ReadDir(f, real),
                      err |-> unreadable]
         IN  [item |-> Some(DirEntry(p, TRUE)),
              walker |-> [w EXCEPT !.stack = Append(@, list)]]
    ELSE [item |-> Some(DirEntry(p, FALSE)), walker |-> w])

\* IntoIter::next
RECURSIVE IntoIterNext(_, _)
IntoIterNext(f, w) ==
    IF IsSome(w.start)
    THEN handle_entry(f, [w EXCEPT !.start = None], w.start[1])
    ELSE IF Len(w.stack) = 0 THEN [item |-> None, walker |-> w]
    ELSE Let(w.stack[Len(w.stack)], LAMBDA top :
         IF top.err
         THEN [item |-> Some(WalkdirError(top.path, "io")),
               walker |-> [w EXCEPT !.stack[Len(w.stack)].err = FALSE]]
         ELSE IF Len(top.pending) = 0
         THEN IntoIterNext(f, [w EXCEPT !.stack = Pop(@)])
         ELSE handle_entry(f, [w EXCEPT !.stack[Len(w.stack)].pending = Tail(@)],
                           Join(top.path, Head(top.pending))))

\* A buggy predicate that lets every entry through.
is_dir_any(entry) == TRUE

\* config.rs: is_dir, the predicate of filter_entry.
is_dir(entry) == entry.is_dir

\* FilterEntry::next
RECURSIVE FilterEntryNext(_, _)
FilterEntryNext(f, w) ==
    Let(IntoIterNext(f, w), LAMBDA r :
    IF ~IsSome(r.item) THEN r
    ELSE IF r.item[1].tag = "Err" THEN r
    ELSE IF ~is_dir(r.item[1])
    THEN FilterEntryNext(f, IF r.item[1].is_dir
                            THEN skip_current_dir(r.walker)
                            ELSE r.walker)
    ELSE r)

-----------------------------------------------------------------------------
(* config.rs: TreeConfig::repo_iter, TreeRepoIter::next,                   *)
(*            Config::repo_iter, ConfigRepoIter::next                      *)

TreeConfig(root, replace_root) == [root |-> root, replace_root |-> replace_root]

\* TreeConfig::repo_iter
TreeRepoIter(tree_config) ==
    [walker |-> WalkDirNew(tree_config.root), tree_config |-> tree_config]

\* The items of the iterators: a discovered repository, or an error.
Discovered(name, p, repository) ==
    [tag |-> "Ok", name |-> name, path |-> p, gitdir |-> repository.path,
     repository |-> Some(repository.repo)]
RepoIterError(kind, p) ==
    [tag |-> "Err", name |-> <<>>, path |-> p, gitdir |-> <<kind>>,
     repository |-> None]
Panicked(p) ==
    [tag |-> "Panic", name |-> <<>>, path |-> p, gitdir |-> <<>>,
     repository |-> None]

\* A buggy TreeRepoIter::next that forgets skip_current_dir.
RECURSIVE TreeRepoIterNextNoSkip(_, _, _)
TreeRepoIterNextNoSkip(f, self, opens) ==
    Let(FilterEntryNext(f, self.walker), LAMBDA r :
    IF ~IsSome(r.item)
    THEN [item |-> None, iter |-> [self EXCEPT !.walker = r.walker],
          opens |-> opens]
    ELSE IF r.item[1].tag = "Err"
    THEN [item |-> Some(RepoIterError("walkdir", r.item[1].path)),
          iter |-> [self EXCEPT !.walker = r.walker], opens |-> opens]
    ELSE
    Let(r.item[1], LAMBDA entry :
    Let(RepositoryOpen(f, entry.path), LAMBDA repository :
    IF repository.tag = "Ok"
    THEN Let(get_name(self.tree_config.root, self.tree_config.replace_root,
                      entry.path), LAMBDA name :
         [item |-> IF name.tag = "Ok"
                   THEN Some(Discovered(name.value, entry.path,
                                        repository.value))
                   ELSE Some(Panicked(entry.path)),
          iter |-> [self EXCEPT !.walker = r.walker],
          opens |-> Append(opens, entry.path)])
    ELSE IF repository.error.code = "NotFound"
    THEN TreeRepoIterNextNoSkip(f, [self EXCEPT !.walker = r.walker],
                          Append(opens, entry.path))
    ELSE [item |-> Some(RepoIterError("git", entry.path)),
          iter |-> [self EXCEPT !.walker = r.walker],
          opens |-> Append(opens, entry.path)])))

\* TreeRepoIter::next.  `opens` collects the paths handed to
\* Repository::open.
RECURSIVE TreeRepoIterNext(_, _, _)
TreeRepoIterNext(f, self, opens) ==
    Let(FilterEntryNext(f, self.walker), LAMBDA r :
    IF ~IsSome(r.item)
    THEN [item |-> None, iter |-> [self EXCEPT !.walker = r.walker],
          opens |-> opens]
    ELSE IF r.item[1].tag = "Err"
    THEN [item |-> Some(RepoIterError("walkdir", r.item[1].path)),
          iter |-> [self EXCEPT !.walker = r.walker], opens |-> opens]
    ELSE
    Let(r.item[1], LAMBDA entry :
    Let(RepositoryOpen(f, entry.path), LAMBDA repository :
    IF repository.tag = "Ok"
    THEN Let(get_name(self.tree_config.root, self.tree_config.replace_root,
                      entry.path), LAMBDA name :
         [item |-> IF name.tag = "Ok"
                   THEN Some(Discovered(name.value, entry.path,
                                        repository.value))
                   ELSE Some(Panicked(entry.path)),
          iter |-> [self EXCEPT !.walker = skip_current_dir(r.walker)],
          opens |-> Append(opens, entry.path)])
    ELSE IF repository.error.code = "NotFound"
    THEN TreeRepoIterNext(f, [self EXCEPT !.walker = r.walker],
                          Append(opens, entry.path))
    ELSE [item |-> Some(RepoIterError("git", entry.path)),
          iter |-> [self EXCEPT !.walker = r.walker],
          opens |-> Append(opens, entry.path)])))

\* A buggy Config::repo_iter: the iterator of the first tree is not set up.
ConfigRepoIterUnprimed(repos) == [config_iter |-> 1, tree_iter |-> None]

\* The state of a ConfigRepoIter right after Config::repo_iter.
ConfigRepoIter(repos) ==
    IF Len(repos) = 0
    THEN [config_iter |-> 1, tree_iter |-> None]
    ELSE [config_iter |-> 2, tree_iter |-> Some(TreeRepoIter(repos[1]))]

\* A buggy ConfigRepoIter::next, with `if let` for `while let`: when a tree
\* is exhausted it moves on to the next tree but answers None.
ConfigRepoIterNextNoLoop(f, repos, ci, ti, opens) ==
    IF ~IsSome(ti)
    THEN [item |-> None, tree |-> ci - 1, config_iter |-> ci, tree_iter |-> ti,
          opens |-> opens]
    ELSE Let(TreeRepoIterNext(f, ti[1], <<>>), LAMBDA r :
         IF IsSome(r.item)
         THEN [item |-> r.item, tree |-> ci - 1, config_iter |-> ci,
               tree_iter |-> Some(r.iter),
               opens |-> opens \o [i \in 1..Len(r.opens) |->
                                      [tree |-> ci - 1, path |-> r.opens[i]]]]
         ELSE [item |-> None, tree |-> ci - 1,
               config_iter |-> IF ci <= Len(repos) THEN ci + 1 ELSE ci,
               tree_iter |-> IF ci <= Len(repos)
                             THEN Some(TreeRepoIter(repos[ci])) ELSE None,
               opens |-> opens \o [i \in 1..Len(r.opens) |->
                                      [tree |-> ci - 1, path |-> r.opens[i]]]])

\* A buggy ConfigRepoIter::next that is not fused: when the last tree is
\* exhausted it answers None and sets itself up on the first tree again.
RECURSIVE ConfigRepoIterNextRestart(_, _, _, _, _)
ConfigRepoIterNextRestart(f, repos, ci, ti, opens) ==
    IF ~IsSome(ti)
    THEN [item |-> None, tree |-> ci - 1, config_iter |-> ci, tree_iter |-> ti,
          opens |-> opens]
    ELSE Let(TreeRepoIterNext(f, ti[1], <<>>), LAMBDA r :
         IF IsSome(r.item)
         THEN [item |-> r.item, tree |-> ci - 1, config_iter |-> ci,
               tree_iter |-> Some(r.iter),
               opens |-> opens \o [i \in 1..Len(r.opens) |->
                                      [tree |-> ci - 1, path |-> r.opens[i]]]]
         ELSE IF ci <= Len(repos)
         THEN ConfigRepoIterNextRestart(f, repos, ci + 1,
                                        Some(TreeRepoIter(repos[ci])), opens)
         ELSE [item |-> None, tree |-> ci - 1, config_iter |-> 2,
               tree_iter |-> Some(TreeRepoIter(repos[1])), opens |-> opens])

\* A buggy ConfigRepoIter::next that yields the item of the tree iterator
\* but keeps the iterator as it was before the call.
RECURSIVE ConfigRepoIterNextStuck(_, _, _, _, _)
ConfigRepoIterNextStuck(f, repos, ci, ti, opens) ==
    IF ~IsSome(ti)
    THEN [item |-> None, tree |-> ci - 1, config_iter |-> ci, tree_iter |-> ti,
          opens |-> opens]
    ELSE Let(TreeRepoIterNext(f, ti[1], <<>>), LAMBDA r :
         IF IsSome(r.item)
         THEN [item |-> r.item, tree |-> ci - 1, config_iter |-> ci,
               tree_iter |-> ti,
               opens |-> opens \o [i \in 1..Len(r.opens) |->
                                      [tree |-> ci - 1, path |-> r.opens[i]]]]
         ELSE IF ci <= Len(repos)
         THEN ConfigRepoIterNextStuck(f, repos, ci + 1,
                                      Some(TreeRepoIter(repos[ci])), opens)
         ELSE ConfigRepoIterNextStuck(f, repos, ci, None, opens))

\* The paths opened while the tree with index `tree` was walked.
OpenedIn(tree, paths) == [i \in 1..Len(paths) |-> [tree |-> tree, path |-> paths[i]]]

\* ConfigRepoIter::next.  config_iter is the index of the TreeConfig that
\* slice::Iter::next gives next, so the tree being walked has the index
\* before it.  `opens` collects the paths handed to Repository::open, each
\* with the index of its tree.
RECURSIVE ConfigRepoIterNext(_, _, _, _, _)
ConfigRepoIterNext(f, repos, ci, ti, opens) ==
    IF ~IsSome(ti)
    THEN [item |-> None, tree |-> ci - 1, config_iter |-> ci, tree_iter |-> ti,
          opens |-> opens]
    ELSE Let(TreeRepoIterNext(f, ti[1], <<>>), LAMBDA r :
         IF IsSome(r.item)
         THEN [item |-> r.item, tree |-> ci - 1, config_iter |-> ci,
               tree_iter |-> Some(r.iter),
               opens |-> opens \o OpenedIn(ci - 1, r.opens)]
         ELSE IF ci <= Len(repos)
         THEN ConfigRepoIterNext(f, repos, ci + 1,
                                 Some(TreeRepoIter(repos[ci])),
                                 opens \o OpenedIn(ci - 1, r.opens))
         ELSE ConfigRepoIterNext(f, repos, ci, None,
                                 opens \o OpenedIn(ci - 1, r.opens)))

-----------------------------------------------------------------------------
(* main.rs: the scan command (lines 59-77); the same pipeline is           *)
(* api/implementation.rs get_contributions (lines 135-148).                *)

Pending == [tag |-> "Pending", value |-> <<>>, calls |-> <<>>]

\* The events `handles` records.
NextCalled == [op |-> "next", gitdir |-> <<>>]
Acquired(gitdir) == [op |-> "open", gitdir |-> gitdir]
Dropped(gitdir) == [op |-> "drop", gitdir |-> gitdir]

\* What one call of ConfigRepoIter::next adds to `handles`: the call, and
\* the handle inside the item when Repository::open succeeded.
NextEvents(item) ==
    IF IsSome(item) /\ IsSome(item[1].repository)
    THEN <<NextCalled, Acquired(item[1].gitdir)>>
    ELSE <<NextCalled>>

Warning(kind, p) == [kind |-> kind, path |-> p]

\* What `items` remembers of an item: the item without the handle, and
\* the index of the tree it came from.
Summary(item, tree) ==
    [tag |-> item.tag, name |-> item.name, path |-> item.path,
     gitdir |-> item.gitdir, tree |-> tree]

\* A buggy insert: an entry already in the mapping is kept.
InsertFirstWins(map, name, times) == map @@ (name :> times)

\* BTreeMap::insert, as collect does it: a later pair replaces an earlier
\* one with the same key.
Insert(map, name, times) == (name :> times) @@ map

\* A buggy closure: a failing item ends up in the mapping with no
\* timestamps instead of being left out.
FilterMapItemKeepFailed(item, map, warns) ==
    IF item.tag = "Err"
    THEN [result |-> Insert(map, item.path, <<>>),
          warnings |-> Append(warns, Warning("discovery", item.path)),
          dropped |-> None]
    ELSE Let(scan_repo(item.repository[1]), LAMBDA times :
         IF times.tag = "Ok"
         THEN [result |-> Insert(map, item.name, times.value),
               warnings |-> warns,
               dropped |-> Some(item.gitdir)]
         ELSE [result |-> Insert(map, item.name, <<>>),
               warnings |-> Append(warns, Warning("scan", item.path)),
               dropped |-> Some(item.gitdir)])

\* A buggy closure that hands the repository on with its timestamps, so
\* that the handle lives on in the collection.
FilterMapItemKeepHandle(item, map, warns) ==
    IF item.tag = "Err"
    THEN [result |-> map,
          warnings |-> Append(warns, Warning("discovery", item.path)),
          dropped |-> None]
    ELSE Let(scan_repo(item.repository[1]), LAMBDA times :
         IF times.tag = "Ok"
         THEN [result |-> Insert(map, item.name, times.value),
               warnings |-> warns,
               dropped |-> None]
         ELSE [result |-> map,
               warnings |-> Append(warns, Warning("scan", item.path)),
               dropped |-> Some(item.gitdir)])

\* The closure of filter_map applied to one item, and collect's insert.
\* Its value is the mapping and the warnings after the item, and the
\* repository handle dropped at the end of the closure: `repo` is moved
\* into the closure of and_then and only borrowed by scan_repo, so it goes
\* out of scope there whether the scan succeeded or failed.
FilterMapItem(item, map, warns) ==
    IF item.tag = "Err"
    THEN [result |-> map,
          warnings |-> Append(warns, Warning("discovery", item.path)),
          dropped |-> None]
    ELSE Let(scan_repo(item.repository[1]), LAMBDA times :
         IF times.tag = "Ok"
         THEN [result |-> Insert(map, item.name, times.value),
               warnings |-> warns,
               dropped |-> Some(item.gitdir)]
         ELSE [result |-> map,
               warnings |-> Append(warns, Warning("scan", item.path)),
               dropped |-> Some(item.gitdir)])

\* A buggy start of the command: a configuration that does not parse is
\* taken for one without trees.
ParseConfigLenient ==
    /\ pc = "parse"
    /\ LET it == ConfigRepoIter(IF config.tag = "Ok" THEN config.repos ELSE <<>>) IN
       /\ config_iter' = it.config_iter
       /\ tree_iter' = it.tree_iter
    /\ pc' = "collect"
    /\ UNCHANGED <<repo, out, fs, config, result, warnings, items, opened, scan_path,
                   handles>>

\* Config::parse and Config::repo_iter (main.rs lines 60-63).
ParseConfig ==
    /\ pc = "parse"
    /\ IF config.tag = "Ok"
       THEN LET it == ConfigRepoIter(config.repos) IN
            /\ config_iter' = it.config_iter
            /\ tree_iter' = it.tree_iter
            /\ pc' = "collect"
            /\ out' = out
       ELSE /\ out' = Err([kind |-> "toml"], <<>>)
            /\ pc' = "exit"
            /\ UNCHANGED <<config_iter, tree_iter>>
    /\ UNCHANGED <<repo, fs, config, result, warnings, items, opened, scan_path,
                   handles>>

\* One item pulled through filter_map into the mapping (lines 63-75).
CollectItem ==
    /\ pc = "collect"
    /\ \E r \in {ConfigRepoIterNext(fs, config.repos, config_iter, tree_iter, <<>>)} :
           /\ IsSome(r.item)
           /\ config_iter' = r.config_iter
           /\ tree_iter' = r.tree_iter
           /\ opened' = opened \o r.opens
           /\ items' = Append(items, Summary(r.item[1], r.tree))
           /\ IF r.item[1].tag = "Panic"
              THEN /\ pc' = "panic"
                   /\ handles' = handles \o NextEvents(r.item)
                   /\ UNCHANGED <<result, warnings>>
              ELSE \E after \in {FilterMapItem(r.item[1], result, warnings)} :
                       /\ result' = after.result
                       /\ warnings' = after.warnings
                       /\ handles' = handles \o NextEvents(r.item)
                             \o [k \in 1..Len(after.dropped) |->
                                    Dropped(after.dropped[k])]
                       /\ pc' = pc
    /\ UNCHANGED <<repo, out, fs, config, scan_path>>

\* The iterator is exhausted: the mapping is printed (line 76).
PrintResult ==
    /\ pc = "collect"
    /\ \E r \in {ConfigRepoIterNext(fs, config.repos, config_iter, tree_iter, <<>>)} :
           /\ ~IsSome(r.item)
           /\ config_iter' = r.config_iter
           /\ tree_iter' = r.tree_iter
           /\ opened' = opened \o r.opens
           /\ handles' = handles \o NextEvents(r.item)
    /\ out' = Ok(result, <<>>)
    /\ pc' = "exit"
    /\ UNCHANGED <<repo, fs, config, result, warnings, items, scan_path>>

\* Config::repo_iter, for a caller that drives the iterator itself.
CallRepoIter ==
    /\ pc = "repo_iter"
    /\ config_iter' = ConfigRepoIter(config.repos).config_iter
    /\ tree_iter' = ConfigRepoIter(config.repos).tree_iter
    /\ pc' = "next"
    /\ UNCHANGED <<repo, out, fs, config, result, warnings, items, opened, scan_path,
                   handles>>

\* The answers of None among the values next has returned.
NoneAnswers(returned) == {k \in 1..Len(returned) : returned[k] = None}

\* One call of ConfigRepoIter::next by such a caller, who drops the item
\* at once and may call again after None.  `out` collects the answers.
CallNext ==
    /\ pc = "next"
    /\ Cardinality(NoneAnswers(out)) < MaxPolls
    /\ \E r \in {ConfigRepoIterNext(fs, config.repos, config_iter, tree_iter, <<>>)} :
           /\ config_iter' = r.config_iter
           /\ tree_iter' = r.tree_iter
           /\ opened' = opened \o r.opens
           /\ items' = IF IsSome(r.item)
                       THEN Append(items, Summary(r.item[1], r.tree))
                       ELSE items
           /\ out' = Append(out, IF IsSome(r.item)
                                 THEN Some(Summary(r.item[1], r.tree))
                                 ELSE None)
           /\ handles' = handles \o NextEvents(r.item)
                 \o IF IsSome(r.item) /\ IsSome(r.item[1].repository)
                    THEN <<Dropped(r.item[1].gitdir)>>
                    ELSE <<>>
    /\ UNCHANGED <<repo, pc, fs, config, result, warnings, scan_path>>

\* get_default_branch(&repo)
CallGetDefaultBranch ==
    /\ pc = "get_default_branch"
    /\ out' = get_default_branch(repo)
    /\ pc' = "returned"
    /\ UNCHANGED <<repo, fs, config, config_iter, tree_iter, result, warnings,
                   items, opened, scan_path, handles>>

\* scan(path)
CallScan ==
    /\ pc = "scan"
    /\ out' = scan(fs, scan_path)
    /\ pc' = "returned"
    /\ UNCHANGED <<repo, fs, config, config_iter, tree_iter, result, warnings,
                   items, opened, scan_path, handles>>


-----------------------------------------------------------------------------
(* The repositories the specifications draw from *)

Oids == 1..MaxCommits

\* Every commit but the first has the commit before it as its parent.
LinearParents == [c \in Oids |-> IF c > 1 THEN {c - 1} ELSE {}]

\* The last commit merges the two commits before it; these lie on two
\* lines of history.
MergeParents ==
    [c \in Oids |-> IF c = MaxCommits THEN {c - 1, c - 2} \cap Oids
                    ELSE IF c > 2 THEN {c - 2} ELSE {}]

Ascending == [c \in Oids |-> c]
Descending == [c \in Oids |-> MaxCommits + 1 - c]

\* Author times differ from commit times, and between commits.
AuthorTimes == [c \in Oids |-> 10 * c]

History(parents, ctime, missing) ==
    [commits |-> Oids, parents |-> parents, ctime |-> ctime,
     atime |-> AuthorTimes, missing |-> missing]

Histories ==
    {History(p, t, m) : p \in {LinearParents, MergeParents},
                        t \in {Ascending, Descending},
                        m \in {{}} \cup {{c} : c \in Oids}}

Url(host, sep) == <<host, sep, "foo", "/", "bar">>

RemoteOk(url) == [tag |-> "Ok", url |-> url]
RemoteError == [tag |-> "Error", url |-> None]

Remotes(names, find) == [tag |-> "Ok", names |-> names, find |-> find]

NoRemotes == Remotes(<<>>, <<>>)
RemotesError == [tag |-> "Error", names |-> <<>>, find |-> <<>>]
OriginOnly(remote) == Remotes(<<"origin">>, [n \in {"origin"} |-> remote])
OriginUpstream(o, u) ==
    Remotes(<<"origin", "upstream">>,
            [n \in {"origin", "upstream"} |-> IF n = "origin" THEN o ELSE u])

GitHubHttpsRemote == RemoteOk(Some(Url("https://github.com", "/")))
GitHubSshRemote == RemoteOk(Some(Url("git@github.com", ":")))
OtherRemote == RemoteOk(Some(Url("https://example.com", "/")))
LookalikeRemote == RemoteOk(Some(Url("https://github.com.example.com", "/")))
NoUrlRemote == RemoteOk(None)

RemoteSamples ==
    {NoRemotes, RemotesError,
     OriginOnly(GitHubHttpsRemote), OriginOnly(GitHubSshRemote),
     OriginOnly(OtherRemote), OriginOnly(LookalikeRemote),
     OriginOnly(NoUrlRemote),
     OriginUpstream(OtherRemote, GitHubHttpsRemote),
     OriginUpstream(RemoteError, GitHubSshRemote)}

\* r has a remote with a recognized GitHub URL.
HasGitHubRemote(r) ==
    /\ r.remotes.tag = "Ok"
    /\ \E n \in DOMAIN r.remotes.find :
          r.remotes.find[n] \in {GitHubHttpsRemote, GitHubSshRemote}

OriginHead == RefsRemotes \o <<"origin", "/", "HEAD">>
UpstreamHead == RefsRemotes \o <<"upstream", "/", "HEAD">>

Repo(references, config_open, init_default_branch, revparse, walk_setup, remotes, history) ==
    [references |-> references, config_open |-> config_open,
     init_default_branch |-> init_default_branch, revparse |-> revparse,
     walk_setup |-> walk_setup, remotes |-> remotes, history |-> history]

NoReferences == [n \in {OriginHead, UpstreamHead} |-> NotFoundRef]
NoInitDefaultBranch == [tag |-> "NotFound", value |-> <<>>]

\* A repository with a plain history whose only resolvable name is `name`,
\* at commit `oid`.
SimpleRepo(name, oid, remotes) ==
    Repo(NoReferences, "Ok", NoInitDefaultBranch,
         [n \in {name} |-> OkRev(oid)], "Ok", remotes,
         History(LinearParents, Ascending, {}))

\* A repository without any commit: no name resolves.
EmptyRepo ==
    Repo(NoReferences, "Ok", NoInitDefaultBranch, <<>>, "Ok", NoRemotes,
         [commits |-> {}, parents |-> <<>>, ctime |-> <<>>, atime |-> <<>>,
          missing |-> {}])

-----------------------------------------------------------------------------
(* Inputs of get_default_branch *)

Dev == <<"dev">>
FeatureX == <<"feature", "/", "x">>

OriginTargets ==
    {RefsRemotes \o <<"origin", "/">> \o Dev,
     RefsRemotes \o <<"upstream", "/">> \o Dev,
     RefsRemotes \o <<"origin", "/">> \o FeatureX,
     <<"refs", "/", "heads", "/">> \o Dev,
     RefsRemotes \o <<"origin">>,
     RefsRemotes \o <<"origin", "/">>}

UpstreamTargets ==
    {RefsRemotes \o <<"upstream", "/", "up">>,
     RefsRemotes \o <<"upstream", "/">> \o Dev}

RemoteHeadRefs(targets) ==
    {NotFoundRef, ErrorRef, DirectRef} \cup {SymbolicRef(t) : t \in targets}

InitDefaultBranches ==
    {NoInitDefaultBranch, [tag |-> "Error", value |-> <<>>],
     [tag |-> "Ok", value |-> <<"main">>],
     [tag |-> "Ok", value |-> <<"trunk">>]}

\* The revisions a repository may know, each with the commit it names.
RevNames ==
    <<Dev, FeatureX, <<>>, <<"up">>, <<"main">>, <<"trunk">>,
      RefsHeadsMain, RefsHeadsMaster, HEAD>>

OidOf(name) == CHOOSE i \in 1..Len(RevNames) : RevNames[i] = name

EndsWith(s, suffix) ==
    /\ Len(s) >= Len(suffix)
    /\ SubSeq(s, Len(s) - Len(suffix) + 1, Len(s)) = suffix

\* The revisions that matter for a repository with these remote HEADs and
\* this init.defaultBranch: the others are left unknown (NotFound).
RelevantNames(references, init_default_branch) ==
    {n \in {RevNames[i] : i \in 1..Len(RevNames)} :
        \/ n \in {RefsHeadsMain, RefsHeadsMaster, HEAD}
        \/ init_default_branch.tag = "Ok" /\ init_default_branch.value = n
        \/ \E h \in DOMAIN references :
              /\ references[h].tag = "Symbolic"
              /\ EndsWith(references[h].target, <<"/">> \o n)}

\* The answers of revparse_single, from a choice of NotFound / Error / Ok
\* for each name and the commit each name stands for.
RevTable(choice, commit) ==
    [n \in DOMAIN choice |->
        IF choice[n] = "Ok" THEN OkRev(commit[n])
        ELSE IF choice[n] = "Error" THEN ErrorRev ELSE NotFoundRev]

RevChoices == {"NotFound", "Error", "Ok"}

ConfigChoices ==
    {[open |-> "Error", init |-> NoInitDefaultBranch]}
        \cup {[open |-> "Ok", init |-> i] : i \in InitDefaultBranches}

-----------------------------------------------------------------------------
(* Inputs of scan *)

WalkSetups == {"Ok", "RevwalkError", "SortingError", "PushError"}

\* In the repositories scan is tried on, main and HEAD name the last
\* commit and master the one before it.
ScanCommit(name) ==
    IF name = RefsHeadsMaster /\ MaxCommits > 1 THEN MaxCommits - 1
    ELSE MaxCommits

W == <<"/", "w">>
A == <<"/", "w", "/", "a">>
AC == <<"/", "w", "/", "a", "/", "c">>
C == <<"/", "w", "/", "c">>
F == <<"/", "w", "/", "f">>
L == <<"/", "w", "/", "l">>
R == <<"/", "r">>

FileSystem(dirs, files, links, content) ==
    [dirs |-> dirs, files |-> files, links |-> links, content |-> content]

NoFileSystem == FileSystem(<<>>, {}, <<>>, <<>>)

\* /w/a as a working copy (with the subdirectory /w/a/c), as a bare
\* repository, or as a plain directory.
ScanFileSystem(form, r) ==
    CASE form = "worktree" ->
           FileSystem((W :> "dir") @@ (A :> "dir") @@ (AC :> "dir")
                          @@ (Join(A, DotGit) :> "gitdir"),
                      {}, <<>>, (Join(A, DotGit) :> r))
      [] form = "bare" ->
           FileSystem((W :> "dir") @@ (A :> "gitdir"), {}, <<>>, (A :> r))
      [] OTHER ->
           FileSystem((W :> "dir") @@ (A :> "dir") @@ (AC :> "dir"),
                      {}, <<>>, <<>>)

\* The forms of /w/a and the paths scan is called with.  Where the path
\* opens the repository, the repository varies; elsewhere it is fixed.
OpeningScans ==
    {<<"worktree", A>>, <<"worktree", Join(A, DotGit)>>, <<"bare", A>>}

OtherScans ==
    {<<"worktree", AC>>, <<"worktree", W>>, <<"bare", W>>, <<"plain", A>>,
     <<"plain", Join(W, "nope")>>}

-----------------------------------------------------------------------------
(* The directory trees and configurations of the batch scan.               *)
(* /w holds a, a/c and c, the file f and the symbolic link l to /r, which  *)
(* lies outside /w and is a working copy.                                  *)

TreeDirs == {W, A, AC, C}

DirStates ==
    {"plain", "unreadable", "bare", "badbare", "worktree", "badworktree"}

\* The repository found in each git database of the tree: they differ in
\* their history, so that their timestamps tell them apart; one has a
\* GitHub remote and four cannot be scanned, each for another reason (the
\* lookup of HEAD fails, a commit in the middle of the history cannot be
\* read, revwalk() fails, remotes() fails).
ContentOf(gitdir) ==
    CASE gitdir = Join(W, DotGit) -> SimpleRepo(RefsHeadsMain, MaxCommits, NoRemotes)
      [] gitdir = W ->
           [SimpleRepo(HEAD, MaxCommits, NoRemotes) EXCEPT
               !.revparse = [n \in {HEAD} |-> ErrorRev]]
      [] gitdir = Join(A, DotGit) -> SimpleRepo(HEAD, 1, NoRemotes)
      [] gitdir = A ->
           [SimpleRepo(HEAD, MaxCommits, NoRemotes) EXCEPT
               !.history.missing = {MaxCommits - 1}]
      [] gitdir = Join(AC, DotGit) ->
           [SimpleRepo(RefsHeadsMaster, MaxCommits, OriginOnly(OtherRemote))
               EXCEPT !.walk_setup = "RevwalkError"]
      [] gitdir = AC ->
           [SimpleRepo(HEAD, MaxCommits, NoRemotes) EXCEPT
               !.history.ctime = Descending]
      [] gitdir = Join(C, DotGit) ->
           SimpleRepo(RefsHeadsMain, MaxCommits, OriginOnly(GitHubHttpsRemote))
      [] gitdir = C -> SimpleRepo(RefsHeadsMain, 1, RemotesError)
      [] OTHER -> SimpleRepo(RefsHeadsMain, MaxCommits, NoRemotes)

\* The directories a tree directory in state st contributes.
DirsOf(d, st) ==
    CASE st = "plain" -> (d :> "dir")
      [] st = "unreadable" -> (d :> "unreadable")
      [] st = "bare" -> (d :> "gitdir")
      [] st = "badbare" -> (d :> "badgitdir")
      [] st = "worktree" -> (d :> "dir") @@ (Join(d, DotGit) :> "gitdir")
      [] OTHER -> (d :> "dir") @@ (Join(d, DotGit) :> "badgitdir")

TreeFileSystem(state) ==
    LET dirs == DirsOf(W, state[W]) @@ DirsOf(A, state[A])
                    @@ DirsOf(AC, state[AC]) @@ DirsOf(C, state[C])
                    @@ DirsOf(R, "worktree")
    IN  FileSystem(dirs, {F}, (L :> R),
                   [g \in {d \in DOMAIN dirs : dirs[d] = "gitdir"} |->
                       ContentOf(g)])

X == <<"X:">>

TreeConfigs ==
    {TreeConfig(W, None), TreeConfig(W, Some(X)), TreeConfig(A, Some(X))}

RECURSIVE SeqsUpTo(_, _)
SeqsUpTo(set, n) ==
    IF n = 0 THEN {<<>>}
    ELSE LET shorter == SeqsUpTo(set, n - 1) IN
         shorter \cup {Append(q, x) : q \in shorter, x \in set}

Configs == SeqsUpTo(TreeConfigs, MaxTrees)

-----------------------------------------------------------------------------
(* Specifications *)

IdleBatch ==
    /\ config = [tag |-> "Ok", repos |-> <<>>]
    /\ config_iter = 1
    /\ tree_iter = None
    /\ result = <<>>
    /\ warnings = <<>>
    /\ items = <<>>
    /\ opened = <<>>
    /\ handles = <<>>

\* The batch scan of a configuration over a directory tree.
Init ==
    /\ \E state \in [TreeDirs -> DirStates] :
          /\ Cardinality({d \in TreeDirs : state[d] # "plain"}) <= MaxSpecial
          /\ fs = TreeFileSystem(state)
    /\ config \in {[tag |-> "Err", repos |-> <<>>]}
                    \cup {[tag |-> "Ok", repos |-> c] : c \in Configs}
    /\ config_iter = 1
    /\ tree_iter = None
    /\ result = <<>>
    /\ warnings = <<>>
    /\ items = <<>>
    /\ opened = <<>>
    /\ handles = <<>>
    /\ pc = "parse"
    /\ out = Pending
    /\ repo = EmptyRepo
    /\ scan_path = <<>>

Next == ParseConfig \/ CollectItem \/ PrintResult

Spec == Init /\ [][Next]_vars

\* The batch scan as the program runs it: a sequential loop, in which the
\* step that can be taken is taken.
SpecLive == Init /\ [][Next]_vars /\ WF_vars(Next)

\* The iterator of a configuration driven call by call, beyond its end.
InitIter ==
    /\ \E state \in [TreeDirs -> DirStates] :
          /\ Cardinality({d \in TreeDirs : state[d] # "plain"}) <= MaxSpecial
          /\ fs = TreeFileSystem(state)
    /\ config \in {[tag |-> "Ok", repos |-> c] : c \in Configs}
    /\ config_iter = 1
    /\ tree_iter = None
    /\ result = <<>>
    /\ warnings = <<>>
    /\ items = <<>>
    /\ opened = <<>>
    /\ handles = <<>>
    /\ pc = "repo_iter"
    /\ out = <<>>
    /\ repo = EmptyRepo
    /\ scan_path = <<>>

NextIter == CallRepoIter \/ CallNext

SpecIter == InitIter /\ [][NextIter]_vars

\* get_default_branch on every repository of the input set.
InitBranch ==
    /\ \E o \in RemoteHeadRefs(OriginTargets),
          u \in RemoteHeadRefs(UpstreamTargets),
          c \in ConfigChoices :
          LET references == [n \in {OriginHead, UpstreamHead} |->
                                IF n = OriginHead THEN o ELSE u]
          IN  \E choice \in [RelevantNames(references, c.init) -> RevChoices] :
                 repo = Repo(references, c.open, c.init,
                             RevTable(choice, [n \in DOMAIN choice |-> OidOf(n)]), "Ok", NoRemotes,
                             History(LinearParents, Ascending, {}))
    /\ pc = "get_default_branch"
    /\ out = Pending
    /\ fs = NoFileSystem
    /\ scan_path = <<>>
    /\ IdleBatch

NextBranch == CallGetDefaultBranch

SpecBranch == InitBranch /\ [][NextBranch]_vars

\* scan on every path and repository of the input set.
InitScan ==
    /\ \/ \E how \in OpeningScans,
             choice \in [{RefsHeadsMain, RefsHeadsMaster, HEAD} -> RevChoices],
             setup \in WalkSetups,
             remotes \in RemoteSamples,
             history \in Histories :
             /\ fs = ScanFileSystem(how[1],
                        Repo(NoReferences, "Ok", NoInitDefaultBranch,
                             RevTable(choice, [n \in DOMAIN choice |-> ScanCommit(n)]), setup, remotes,
                             history))
             /\ scan_path = how[2]
       \/ \E how \in OtherScans :
             /\ fs = ScanFileSystem(how[1],
                        SimpleRepo(RefsHeadsMain, MaxCommits, NoRemotes))
             /\ scan_path = how[2]
    /\ pc = "scan"
    /\ out = Pending
    /\ repo = EmptyRepo
    /\ IdleBatch

NextScan == CallScan

SpecScan == InitScan /\ [][NextScan]_vars

-----------------------------------------------------------------------------
(* Properties of get_default_branch, under SpecBranch.  They are stated on *)
(* what the repository answers to each lookup.                             *)

Steps == 1..6

RemoteOf(i) == IF i = 1 THEN <<"origin">> ELSE <<"upstream">>

\* The revision step i of the order looks up, as an Option: the branch the
\* HEAD of origin (1) or of upstream (2) names, the value of
\* init.defaultBranch (3), refs/heads/main (4), refs/heads/master (5) and
\* HEAD (6).
StepName(r, i) ==
    CASE i \in {1, 2} ->
           LET branch == remote_head_to_local_branch(r, RemoteOf(i)) IN
           IF branch.tag = "Ok" THEN branch.value ELSE None
      [] i = 3 ->
           IF r.config_open = "Ok" /\ r.init_default_branch.tag = "Ok"
           THEN Some(r.init_default_branch.value)
           ELSE None
      [] i = 4 -> Some(RefsHeadsMain)
      [] i = 5 -> Some(RefsHeadsMaster)
      [] OTHER -> Some(HEAD)

\* Step i resolves: the revision it looks up names a commit.
StepResolves(r, i) ==
    /\ IsSome(StepName(r, i))
    /\ revparse_single(r, StepName(r, i)[1]).tag = "Ok"

StepCommit(r, i) == revparse_single(r, StepName(r, i)[1]).oid

\* Step i meets a git error other than NotFound.
StepFails(r, i) ==
    \/ i \in {1, 2}
          /\ find_reference(r, RefsRemotes \o RemoteOf(i) \o <<"/", "HEAD">>).tag
                = "Error"
    \/ i = 3 /\ (r.config_open # "Ok" \/ r.init_default_branch.tag = "Error")
    \/ /\ IsSome(StepName(r, i))
       /\ revparse_single(r, StepName(r, i)[1]).tag = "Error"

\* Step i is the first that resolves, and no step before it fails.
FirstResolving(r, i) ==
    /\ StepResolves(r, i)
    /\ \A j \in 1..(i - 1) : ~StepResolves(r, j) /\ ~StepFails(r, j)

NoDefaultBranch == Anyhow("Could not find a default branch")

\* C3: get_default_branch answers the commit of the first step that
\* resolves, in the order origin's HEAD, upstream's HEAD, init.defaultBranch,
\* refs/heads/main, refs/heads/master, HEAD: when a step resolves and no
\* step before it resolves or fails, its commit is the answer, and every
\* answer is the commit of a step before which no step resolves.
C3_FirstResolvingStepWins ==
    pc = "returned" =>
        /\ \A i \in Steps :
              FirstResolving(repo, i)
                  => out.tag = "Ok" /\ out.value = StepCommit(repo, i)
        /\ out.tag = "Ok"
              => \E i \in Steps : /\ FirstResolving(repo, i)
                                  /\ out.value = StepCommit(repo, i)

\* refs/heads/master is the first step that resolves although HEAD
\* resolves too, and origin's HEAD names a branch that is not found.
C3_Witness ==
    /\ pc = "returned"
    /\ FirstResolving(repo, 5)
    /\ StepResolves(repo, 6)
    /\ IsSome(StepName(repo, 1))
    /\ out.tag = "Ok"
    /\ out.value = OidOf(RefsHeadsMaster)

\* C4: when refs/remotes/origin/HEAD points to refs/remotes/origin/dev and
\* both dev and main resolve, the answer is the commit of dev, not that of
\* main.
C4_OriginHeadBeatsMain ==
    (/\ pc = "returned"
     /\ find_reference(repo, OriginHead)
           = SymbolicRef(RefsRemotes \o <<"origin", "/">> \o Dev)
     /\ revparse_single(repo, Dev).tag = "Ok"
     /\ revparse_single(repo, RefsHeadsMain).tag = "Ok")
        => /\ out.tag = "Ok"
           /\ out.value = revparse_single(repo, Dev).oid
           /\ out.value # revparse_single(repo, RefsHeadsMain).oid

C4_Witness ==
    /\ pc = "returned"
    /\ find_reference(repo, OriginHead)
          = SymbolicRef(RefsRemotes \o <<"origin", "/">> \o Dev)
    /\ revparse_single(repo, Dev) = OkRev(OidOf(Dev))
    /\ revparse_single(repo, RefsHeadsMain) = OkRev(OidOf(RefsHeadsMain))
    /\ out.tag = "Ok"
    /\ out.value = OidOf(Dev)

\* What the repository answers to a call of the trace.
CallOutcome(r, call) ==
    CASE call.fn = "find_reference" ->
           IF find_reference(r, call.arg).tag \in {"NotFound", "Error"}
           THEN find_reference(r, call.arg).tag ELSE "Ok"
      [] call.fn = "revparse_single" -> revparse_single(r, call.arg).tag
      [] call.fn = "config" -> r.config_open
      [] OTHER -> r.init_default_branch.tag

\* C5: a lookup that answers NotFound is followed by the next lookup, or,
\* when it is the last one of the chain, by the "no default branch" error;
\* a lookup that answers another git error is the last call made, and that
\* error is what get_default_branch returns.
C5_NotFoundFallsThroughErrorAborts ==
    pc = "returned" =>
        /\ \A k \in 1..Len(out.calls) :
              LET outcome == CallOutcome(repo, out.calls[k]) IN
              /\ outcome = "Error"
                    => /\ k = Len(out.calls)
                       /\ out.tag = "Err"
                       /\ out.error = GitError("Other", out.calls[k])
              /\ outcome = "NotFound"
                    => \/ k < Len(out.calls)
                       \/ out.tag = "Err" /\ out.error = NoDefaultBranch
        /\ (out.tag = "Err" /\ out.error # NoDefaultBranch)
              => /\ Len(out.calls) > 0
                 /\ CallOutcome(repo, out.calls[Len(out.calls)]) = "Error"

\* The lookups of origin's HEAD, upstream's HEAD, init.defaultBranch and
\* refs/heads/main answered NotFound, and that of refs/heads/master failed:
\* the error is returned and HEAD is never looked up.
C5_Witness ==
    /\ pc = "returned"
    /\ out.tag = "Err"
    /\ out.error = GitError("Other", Call("revparse_single", RefsHeadsMaster))
    /\ \A k \in 1..(Len(out.calls) - 1) :
          /\ CallOutcome(repo, out.calls[k]) # "Error"
          /\ out.calls[k].fn # "config"
                => CallOutcome(repo, out.calls[k]) = "NotFound"
    /\ revparse_single(repo, HEAD).tag = "Ok"
    /\ Call("revparse_single", HEAD)
          \notin {out.calls[k] : k \in 1..Len(out.calls)}

\* C6: when no step resolves and none fails, get_default_branch fails with
\* "Could not find a default branch".
C6_NothingResolves ==
    (/\ pc = "returned"
     /\ \A i \in Steps : ~StepResolves(repo, i) /\ ~StepFails(repo, i))
        => out.tag = "Err" /\ out.error = NoDefaultBranch

\* Nothing resolves although origin's HEAD names a branch.
C6_Witness ==
    /\ pc = "returned"
    /\ \A i \in Steps : ~StepResolves(repo, i) /\ ~StepFails(repo, i)
    /\ IsSome(StepName(repo, 1))
    /\ out.tag = "Err"
    /\ out.error = NoDefaultBranch

-----------------------------------------------------------------------------
(* Properties of scan, under SpecScan *)

\* No library call on r fails with an error other than NotFound.
NoGitFailure(r) ==
    /\ r.walk_setup = "Ok"
    /\ r.config_open = "Ok"
    /\ r.init_default_branch.tag # "Error"
    /\ \A n \in DOMAIN r.references : r.references[n].tag # "Error"
    /\ \A n \in DOMAIN r.revparse : r.revparse[n].tag # "Error"
    /\ r.remotes.tag = "Ok"
    /\ \A n \in DOMAIN r.remotes.find : r.remotes.find[n].tag = "Ok"
    /\ r.history.missing = {}

\* C2: scan of a repository with a GitHub remote answers the empty
\* sequence, whatever its branches and HEAD resolve to (stated for the
\* repositories on which no library call fails).
C2_GitHubRemoteAlwaysEmpty ==
    LET repository == RepositoryOpen(fs, scan_path) IN
    (/\ pc = "returned"
     /\ repository.tag = "Ok"
     /\ HasGitHubRemote(repository.value.repo)
     /\ NoGitFailure(repository.value.repo))
        => out.tag = "Ok" /\ out.value = <<>>

-----------------------------------------------------------------------------
(* Properties of the batch scan, under Spec *)

\* The TreeConfig an item came from.
TreeOf(item) == config.repos[item.tree]

\* q lies strictly beneath the directory p.
Beneath(q, p) ==
    /\ Len(q) > Len(p)
    /\ StartsWith(q, p)
    /\ q[Len(p) + 1] = "/"

\* C1: a directory that opened as a repository is yielded once, and in the
\* walk of its tree nothing beneath it is handed to Repository::open or
\* yielded.
C1_NestedRepositoriesSkipped ==
    \A i \in 1..Len(items) :
        items[i].tag = "Ok" =>
            /\ \A j \in 1..Len(items) :
                  (j # i /\ items[j].tree = items[i].tree)
                      => /\ items[j].path # items[i].path
                         /\ ~Beneath(items[j].path, items[i].path)
            /\ \A k \in 1..Len(opened) :
                  opened[k].tree = items[i].tree
                      => ~Beneath(opened[k].path, items[i].path)
            /\ Cardinality({k \in 1..Len(opened) :
                               opened[k] = [tree |-> items[i].tree,
                                            path |-> items[i].path]}) = 1

\* /w/a and /w/a/c are both working copies: the walk of /w has yielded
\* /w/a, nothing for /w/a/c, and has gone on to yield /w/l.
C1_Witness ==
    /\ pc = "exit"
    /\ Join(AC, DotGit) \in DOMAIN fs.content
    /\ \E i, j \in 1..Len(items) :
          /\ i < j
          /\ items[i].tag = "Ok" /\ items[i].path = A
          /\ items[j].tag = "Ok" /\ items[j].path = L
          /\ items[i].tree = items[j].tree
          /\ TreeOf(items[i]).root = W
          /\ \A k \in 1..Len(items) :
                items[k].tree = items[i].tree => items[k].path # AC

\* What scanning a discovered item answers.
Scanned(item) == scan_repo(fs.content[item.gitdir])

Succeeds(item) == item.tag = "Ok" /\ Scanned(item).tag = "Ok"

Fails(item) == item.tag = "Err" \/ (item.tag = "Ok" /\ Scanned(item).tag # "Ok")

\* The warning a failing item is reported with.
WarningFor(item) ==
    Warning(IF item.tag = "Err" THEN "discovery" ELSE "scan", item.path)

\* C7: with a configuration that parses, the keys of the mapping are the
\* names of the items discovered and scanned without error, the warnings
\* are those of the failing items, one each, and the command ends with
\* the mapping as its result; without any repository the mapping is empty.
C7_MappingHoldsTheSuccessfulItems ==
    config.tag = "Ok" =>
        /\ DOMAIN result
              = {items[i].name : i \in {k \in 1..Len(items) : Succeeds(items[k])}}
        /\ LET failing == SelectSeq(items, Fails) IN
           warnings = [k \in 1..Len(failing) |-> WarningFor(failing[k])]
        /\ pc = "exit" => out.tag = "Ok" /\ out.value = result
        /\ (pc = "exit" /\ \A i \in 1..Len(items) : items[i].tag # "Ok")
              => out.value = <<>>

\* Three items, of which one failed: two keys and one warning.
C7_Witness ==
    /\ pc = "exit"
    /\ config.tag = "Ok"
    /\ Len(items) = 3
    /\ Cardinality({i \in 1..Len(items) : Fails(items[i])}) = 1
    /\ out.tag = "Ok"
    /\ Cardinality(DOMAIN out.value) = 2
    /\ Len(warnings) = 1

\* The path of a repository relative to the root it was found under: the
\* root and the separator after it cut off the front.
BelowRoot(p, root) ==
    IF p = root THEN <<>> ELSE SubSeq(p, Len(root) + 2, Len(p))

C9_ReplaceRootKeepsSeparator ==
    \A i \in 1..Len(items) :
        (/\ items[i].tag = "Ok"
         /\ IsSome(TreeOf(items[i]).replace_root)
         /\ Beneath(items[i].path, TreeOf(items[i]).root))
            => items[i].name
                  = TreeOf(items[i]).replace_root[1]
                       \o SubSeq(items[i].path, Len(TreeOf(items[i]).root) + 1,
                                 Len(items[i].path))

\* C10: in a tree without a replace_root every repository is named by the
\* path it was discovered at, unchanged.
C10_NameIsThePath ==
    \A i \in 1..Len(items) :
        (items[i].tag = "Ok" /\ ~IsSome(TreeOf(items[i]).replace_root))
            => /\ items[i].name = items[i].path
               /\ StartsWith(items[i].name, TreeOf(items[i]).root)

\* /w/a/c was found under the root /w without replace_root and is a key of
\* the mapping as /w/a/c.
C10_Witness ==
    /\ pc = "exit"
    /\ \E i \in 1..Len(items) :
          /\ items[i].tag = "Ok"
          /\ TreeOf(items[i]) = TreeConfig(W, None)
          /\ items[i].path = AC
          /\ items[i].name = AC
          /\ AC \in DOMAIN out.value

\* The name get_name is to give a repository found at path p in `tree`.
NameAt(tree, p) ==
    IF IsSome(tree.replace_root)
    THEN tree.replace_root[1] \o BelowRoot(p, tree.root)
    ELSE p

\* The walk of a tree rooted at `root` goes below the root: the root can be
\* listed and is no repository.
WalkEnters(root) ==
    /\ root \in DOMAIN fs.dirs
    /\ fs.dirs[root] # "unreadable"
    /\ RepositoryOpen(fs, root).tag # "Ok"

\* C11: the repository behind the symbolic link /w/l is discovered by every
\* walk that lists /w, it is the repository of the link's target, and it is
\* yielded under the path of the link and named after that path, with and
\* without replace_root; no repository is yielded under a path outside the
\* root of its tree.
C11_SymlinkNamedByLinkPath ==
    /\ \A i \in 1..Len(items) :
          items[i].tag = "Ok" =>
              /\ StartsWith(items[i].path, TreeOf(items[i]).root)
              /\ IsLink(fs, items[i].path) =>
                    /\ items[i].gitdir = Join(fs.links[items[i].path], DotGit)
                    /\ items[i].name = NameAt(TreeOf(items[i]), items[i].path)
                    /\ items[i].name
                          # NameAt(TreeOf(items[i]), fs.links[items[i].path])
    /\ pc = "exit" =>
          \A t \in 1..Len(config.repos) :
              (config.repos[t].root = W /\ WalkEnters(W)) =>
                  \E i \in 1..Len(items) :
                      /\ items[i].tree = t
                      /\ items[i].tag = "Ok"
                      /\ items[i].path = L

\* /w/l was found in a walk with replace_root and in one without.
C11_Witness ==
    /\ pc = "exit"
    /\ \E i, j \in 1..Len(items) :
          /\ items[i].tag = "Ok" /\ items[i].path = L
          /\ items[i].name = <<"X:", "l">>
          /\ items[j].tag = "Ok" /\ items[j].path = L
          /\ items[j].name = L
    /\ fs.links[L] = R
    /\ X \o <<"l">> \in DOMAIN out.value

\* The git databases in the tree under `root`, symbolic links followed.
GitDirsUnder(root) ==
    {g \in DOMAIN fs.content :
        \/ g = root \/ Beneath(g, root)
        \/ \E l \in DOMAIN fs.links :
              /\ Beneath(l, root)
              /\ g = fs.links[l] \/ Beneath(g, fs.links[l])}

\* C12 as stated: the walk of a tree in which no directory is named .git
\* yields no repository.
C12_NoDotGitNoRepository ==
    \A i \in 1..Len(items) :
        items[i].tag = "Ok" =>
            \E g \in GitDirsUnder(TreeOf(items[i]).root) : g[Len(g)] = DotGit

\* C12, amended: the walk of a tree that holds no git database, neither the
\* .git of a working copy nor a bare repository, yields no repository; every
\* repository yielded is a git database of the tree.
C12_NoRepositoryNoDiscovery ==
    \A i \in 1..Len(items) :
        items[i].tag = "Ok" =>
            /\ GitDirsUnder(TreeOf(items[i]).root) # {}
            /\ items[i].gitdir \in GitDirsUnder(TreeOf(items[i]).root)

\* The walk of /w/a, which holds plain directories only, is over and has
\* yielded nothing, while /w itself is a working copy.
C12_Witness ==
    /\ pc = "exit"
    /\ \E t \in 1..Len(config.repos) :
          /\ config.repos[t].root = A
          /\ GitDirsUnder(A) = {}
          /\ \A i \in 1..Len(items) : items[i].tree # t
    /\ Join(W, DotGit) \in DOMAIN fs.content

-----------------------------------------------------------------------------
(* More properties of scan, under SpecScan *)

\* The repository scan opens, as an Option.
ScannedRepository ==
    LET repository == RepositoryOpen(fs, scan_path) IN
    IF repository.tag = "Ok" THEN Some(repository.value.repo) ELSE None

\* The ancestry of commit c: the least set of commits that holds c and the
\* parents of its members.
Ancestry(h, c) ==
    LET closed == {S \in SUBSET h.commits :
                      c \in S /\ \A x \in S : h.parents[x] \subseteq S}
    IN  {x \in h.commits : \A S \in closed : x \in S}

\* The commit whose author time is t.
AuthoredAt(h, t) == CHOOSE c \in h.commits : h.atime[c] = t

\* C13: when scan succeeds on a repository without GitHub remote, its
\* result holds the author time of every commit in the ancestry of the
\* default branch's commit, each once, and of no other commit, ordered by
\* commit time, newest first; and scan succeeds when a default branch
\* resolves and no library call fails.
C13_OneTimestampPerAncestor ==
    (pc = "returned" /\ IsSome(ScannedRepository)) =>
        LET r == ScannedRepository[1]
            h == r.history
        IN  /\ (out.tag = "Ok" /\ ~HasGitHubRemote(r)) =>
                  \E i \in 4..6 :
                      /\ FirstResolving(r, i)
                      /\ LET ancestry == Ancestry(h, StepCommit(r, i)) IN
                         /\ Len(out.value) = Cardinality(ancestry)
                         /\ {out.value[k] : k \in 1..Len(out.value)}
                               = {h.atime[c] : c \in ancestry}
                         /\ \A k, l \in 1..Len(out.value) :
                               k < l => h.ctime[AuthoredAt(h, out.value[k])]
                                           > h.ctime[AuthoredAt(h, out.value[l])]
            /\ (NoGitFailure(r) /\ \E i \in 4..6 : FirstResolving(r, i))
                  => out.tag = "Ok"

\* A merge whose parents were committed in the reverse order of their
\* numbers: all commits are listed, the merge last.
C13_Witness ==
    /\ pc = "returned"
    /\ IsSome(ScannedRepository)
    /\ ~HasGitHubRemote(ScannedRepository[1])
    /\ ScannedRepository[1].history.parents = MergeParents
    /\ ScannedRepository[1].history.ctime = Descending
    /\ out.tag = "Ok"
    /\ Len(out.value) = MaxCommits
    /\ out.value[MaxCommits] = AuthorTimes[MaxCommits]
    /\ out.value[1] = AuthorTimes[1]

-----------------------------------------------------------------------------
(* More properties of the batch scan, under Spec *)

\* The items so far that were discovered under `name`, and those of them
\* whose scan succeeded, as the set of their positions in `items`.
DiscoveredAs(name) ==
    {i \in 1..Len(items) : items[i].tag = "Ok" /\ items[i].name = name}

ScannedAs(name) == {i \in DiscoveredAs(name) : Succeeds(items[i])}

Last(positions) == CHOOSE i \in positions : \A j \in positions : j <= i

\* C14 as stated: the entry of a name that several discovered repositories
\* share has the timestamps of the last repository discovered under it.
C14_LastDiscoveredWins ==
    config.tag = "Ok" =>
        \A name \in DOMAIN result :
            Cardinality(DiscoveredAs(name)) > 1 =>
                LET last == items[Last(DiscoveredAs(name))] IN
                /\ Scanned(last).tag = "Ok"
                /\ result[name] = Scanned(last).value

\* C14, amended: every key of the mapping has the timestamps of the last
\* repository discovered under that name whose scan succeeded; a repository
\* whose scan fails replaces nothing, and replacing adds no warning.
C14_LastScannedWins ==
    config.tag = "Ok" =>
        /\ \A name \in DOMAIN result :
              /\ ScannedAs(name) # {}
              /\ result[name] = Scanned(items[Last(ScannedAs(name))]).value
        /\ Len(warnings) = Cardinality({i \in 1..Len(items) : Fails(items[i])})

\* Two repositories with different histories were found under the name X:
\* and both were scanned: the mapping has the timestamps of the second.
C14_Witness ==
    /\ pc = "exit"
    /\ \E i, j \in ScannedAs(X) :
          /\ i < j
          /\ Scanned(items[i]).value # Scanned(items[j]).value
          /\ out.value[X] = Scanned(items[j]).value
    /\ warnings = <<>>

\* The mapping a batch scan of `repos` collects, from the iterator state
\* (ci, ti) on (main.rs lines 63-75).
RECURSIVE CollectFrom(_, _, _, _, _)
CollectFrom(f, repos, ci, ti, map) ==
    Let(ConfigRepoIterNext(f, repos, ci, ti, <<>>), LAMBDA r :
    IF ~IsSome(r.item) \/ r.item[1].tag = "Panic" THEN map
    ELSE CollectFrom(f, repos, r.config_iter, r.tree_iter,
                     FilterMapItem(r.item[1], map, <<>>).result))

BatchResult(f, repos) ==
    CollectFrom(f, repos, ConfigRepoIter(repos).config_iter,
                ConfigRepoIter(repos).tree_iter, <<>>)

\* The sequences with the elements of s in another order.
Reorderings(s) ==
    {[i \in 1..Len(s) |-> s[p[i]]] :
        p \in {q \in [1..Len(s) -> 1..Len(s)] :
                  \A i, j \in 1..Len(s) : q[i] = q[j] => i = j}}

\* C15 as stated: the batch scan of a configuration with its trees in
\* another order returns the same mapping.
C15_TreeOrderIrrelevant ==
    (pc = "exit" /\ config.tag = "Ok") =>
        \A repos \in Reorderings(config.repos) :
            BatchResult(fs, repos) = out.value

\* No two repositories with different timestamps were scanned under one
\* name.
NoNameClash ==
    \A i, j \in 1..Len(items) :
        (Succeeds(items[i]) /\ Succeeds(items[j])
            /\ items[i].name = items[j].name)
                => Scanned(items[i]).value = Scanned(items[j]).value

\* C15, amended: with the trees in another order the batch scan returns a
\* mapping with the same keys, and the same mapping unless two repositories
\* with different timestamps were scanned under one name.
C15_TreeOrderIrrelevantWithoutClash ==
    (pc = "exit" /\ config.tag = "Ok") =>
        \A repos \in Reorderings(config.repos) :
            /\ DOMAIN BatchResult(fs, repos) = DOMAIN out.value
            /\ NoNameClash => BatchResult(fs, repos) = out.value

\* Two different trees, both with repositories, scanned without a clash of
\* names: the other order gives the same mapping.
C15_Witness ==
    /\ pc = "exit"
    /\ config.tag = "Ok"
    /\ Len(config.repos) = 2
    /\ config.repos[1] # config.repos[2]
    /\ NoNameClash
    /\ \E i, j \in 1..Len(items) :
          /\ items[i].tree = 1 /\ Succeeds(items[i])
          /\ items[j].tree = 2 /\ Succeeds(items[j])
          /\ items[i].name # items[j].name
    /\ BatchResult(fs, <<config.repos[2], config.repos[1]>>) = out.value

\* What the walk of one tree yields, from the iterator state `iter` on, as
\* `items` records it for the tree with index t.
RECURSIVE TreeSequence(_, _, _)
TreeSequence(f, iter, t) ==
    Let(TreeRepoIterNext(f, iter, <<>>), LAMBDA r :
    IF ~IsSome(r.item) THEN <<>>
    ELSE <<Summary(r.item[1], t)>> \o TreeSequence(f, r.iter, t))

\* The sequences of the trees from index t on, one after the other.
RECURSIVE Chain(_, _, _)
Chain(f, repos, t) ==
    IF t > Len(repos) THEN <<>>
    ELSE TreeSequence(f, TreeRepoIter(repos[t]), t) \o Chain(f, repos, t + 1)

\* C16: what ConfigRepoIter has yielded is always the beginning of the
\* sequences of the trees put one after the other in the order of the
\* configuration, and all of it when the iteration ends; so every item of
\* a tree comes before every item of a later tree, a tree without items
\* does not end the iteration, and an empty configuration yields nothing.
C16_ChainsTreesInOrder ==
    config.tag = "Ok" =>
        LET chain == Chain(fs, config.repos, 1) IN
        /\ Len(items) <= Len(chain)
        /\ items = SubSeq(chain, 1, Len(items))
        /\ pc = "exit" => items = chain
        /\ \A i, j \in 1..Len(items) : i < j => items[i].tree <= items[j].tree
        /\ (pc = "exit" /\ config.repos = <<>>) => items = <<>>

\* The walk of the first tree yielded nothing; the iteration went on and
\* yielded the items of the second.
C16_Witness ==
    /\ pc = "exit"
    /\ config.tag = "Ok"
    /\ Len(config.repos) = 2
    /\ TreeSequence(fs, TreeRepoIter(config.repos[1]), 1) = <<>>
    /\ Len(items) >= 2
    /\ \A i \in 1..Len(items) : items[i].tree = 2

-----------------------------------------------------------------------------
(* Properties of opening, under SpecScan *)

\* Two results of scan agree: both succeed with the same timestamps or
\* both fail with the same error.
SameResult(x, y) ==
    /\ x.tag = y.tag
    /\ x.tag = "Ok" => x.value = y.value
    /\ x.tag = "Err" => x.error = y.error

\* C17: when scan has opened a repository, scan of the same repository in
\* each of the three forms (the working copy, its .git directory, a bare
\* repository) gives the same result, the same timestamps when it succeeds.
C17_OpeningIsUniform ==
    (pc = "returned" /\ IsSome(ScannedRepository)) =>
        \A how \in OpeningScans :
            SameResult(scan(ScanFileSystem(how[1], ScannedRepository[1]), how[2]),
                       out)

\* scan of a .git directory succeeded with a timestamp for every commit,
\* and the bare form and the working copy give the same.
C17_Witness ==
    /\ pc = "returned"
    /\ scan_path = Join(A, DotGit)
    /\ out.tag = "Ok"
    /\ Len(out.value) = MaxCommits
    /\ scan(ScanFileSystem("bare", ScannedRepository[1]), A).value = out.value
    /\ scan(ScanFileSystem("worktree", ScannedRepository[1]), A).value = out.value

\* p is no repository: neither the directory nor a .git directory in it is
\* a git database.
NotARepository(f, p) ==
    \A d \in {Resolve(f, p), Join(Resolve(f, p), DotGit)} :
        d \notin DOMAIN f.dirs \/ f.dirs[d] \notin {"gitdir", "badgitdir"}

\* C18: scan of a path that is no repository itself fails with the error
\* of Repository::open and does nothing else, also when the path lies in
\* the working tree of a repository or holds a repository as a child.
C18_NotARepositoryIsAnError ==
    (pc = "returned" /\ NotARepository(fs, scan_path)) =>
        /\ out.tag = "Err"
        /\ out.error = GitError("NotFound", Call("open", scan_path))
        /\ out.calls = <<Call("open", scan_path)>>

\* scan of /w/a/c, a plain directory in the working copy /w/a, failed.
C18_Witness ==
    /\ pc = "returned"
    /\ scan_path = AC
    /\ AC \in DOMAIN fs.dirs
    /\ Join(A, DotGit) \in DOMAIN fs.content
    /\ NotARepository(fs, scan_path)
    /\ out.tag = "Err"

\* Where the scan of repository r meets its first git error, if any:
\* setting up the walk, resolving the default branch, pushing its commit,
\* listing the remotes and looking them up (until a GitHub remote ends the
\* scan), reading a commit of the ancestry.
FailurePoint(r) ==
    LET names == r.remotes.names
        github(k) == /\ r.remotes.find[names[k]].tag = "Ok"
                     /\ r.remotes.find[names[k]] \in
                           {GitHubHttpsRemote, GitHubSshRemote}
        bad(k) == r.remotes.find[names[k]].tag # "Ok"
    IN  IF r.walk_setup \in {"RevwalkError", "SortingError"} THEN "revwalk"
        ELSE IF \E i \in Steps :
                   StepFails(r, i) /\ \A j \in 1..(i - 1) : ~StepResolves(r, j)
        THEN "default branch"
        ELSE IF \A i \in Steps : ~StepResolves(r, i) THEN "no default branch"
        ELSE IF r.walk_setup = "PushError" THEN "push"
        ELSE IF r.remotes.tag # "Ok" THEN "remotes"
        ELSE IF \E k \in 1..Len(names) :
                   bad(k) /\ \A l \in 1..(k - 1) : ~github(l)
        THEN "remotes"
        ELSE IF \E k \in 1..Len(names) : github(k) THEN "none"
        ELSE IF \E i \in Steps :
                   /\ FirstResolving(r, i)
                   /\ Ancestry(r.history, StepCommit(r, i)) \cap r.history.missing # {}
        THEN "commit"
        ELSE "none"

\* C19: a repository whose scan meets a git error, at whatever point, is
\* scanned with an error as the result, not a list; its name gets no entry
\* from it, it is reported with one warning, and the batch carries on:
\* the repositories after it are scanned and entered, the iteration runs
\* to its end and the command succeeds.
C19_ScanErrorsAreIsolated ==
    config.tag = "Ok" =>
        /\ \A i \in 1..Len(items) :
              items[i].tag = "Ok" =>
                  /\ FailurePoint(fs.content[items[i].gitdir]) # "none"
                        <=> Scanned(items[i]).tag = "Err"
                  /\ Scanned(items[i]).tag = "Err" =>
                        /\ Warning("scan", items[i].path)
                              \in {warnings[k] : k \in 1..Len(warnings)}
                        /\ items[i].name \in DOMAIN result
                              => ScannedAs(items[i].name) # {}
                        /\ \A j \in (i + 1)..Len(items) :
                              Succeeds(items[j]) =>
                                  items[j].name \in DOMAIN result
        /\ pc = "exit" =>
              /\ out.tag = "Ok"
              /\ Len(items) = Len(Chain(fs, config.repos, 1))

\* The scan of /w/a failed at a commit in the middle of its history; the
\* repository found after it was scanned and is in the mapping.
C19_Witness ==
    /\ pc = "exit"
    /\ \E i, j \in 1..Len(items) :
          /\ i < j
          /\ items[i].tag = "Ok"
          /\ items[i].gitdir = A
          /\ FailurePoint(fs.content[A]) = "commit"
          /\ Scanned(items[i]).tag = "Err"
          /\ items[i].name \notin DOMAIN out.value
          /\ Succeeds(items[j])
          /\ items[j].name \in DOMAIN out.value
    /\ Len(warnings) = 1

\* C20: when the configuration does not parse, the command ends with the
\* error at once: it never reaches the iteration, no tree iterator is set
\* up, no repository is opened, nothing is discovered, scanned or warned
\* about, and no mapping is printed.
C20_MalformedConfigIsFatal ==
    config.tag = "Err" =>
        /\ pc \in {"parse", "exit"}
        /\ config_iter = 1
        /\ tree_iter = None
        /\ opened = <<>>
        /\ items = <<>>
        /\ warnings = <<>>
        /\ result = <<>>
        /\ pc = "parse" => out = Pending
        /\ pc = "exit" => out.tag = "Err" /\ out.calls = <<>>

\* The command has ended with the error although the file system holds
\* repositories it would have found.
C20_Witness ==
    /\ config.tag = "Err"
    /\ pc = "exit"
    /\ out.tag = "Err"
    /\ opened = <<>>
    /\ GitDirsUnder(W) # {}

-----------------------------------------------------------------------------
(* Properties of the walk after an error, under Spec *)

\* The error items: a directory that Repository::open refused with an
\* error other than NotFound, and an error of the traversal.
OpenError(item) == item.tag = "Err" /\ item.gitdir = <<"git">>
TraversalError(item) == item.tag = "Err" /\ item.gitdir = <<"walkdir">>

\* C21: a directory whose open fails with an error other than NotFound
\* gives one error item, and the walk of its tree goes on with its
\* siblings: nothing beneath the directory is opened or yielded in that
\* walk, so the one failure gives the one item.
C21_OpenErrorThenSiblings ==
    \A i \in 1..Len(items) :
        OpenError(items[i]) =>
            /\ \A j \in 1..Len(items) :
                  (j # i /\ items[j].tree = items[i].tree)
                      => /\ items[j].path # items[i].path
                         /\ ~Beneath(items[j].path, items[i].path)
            /\ \A k \in 1..Len(opened) :
                  opened[k].tree = items[i].tree
                      => ~Beneath(opened[k].path, items[i].path)

\* Repository::open answers NotFound for the path p.
NotFoundAt(p) ==
    /\ RepositoryOpen(fs, p).tag = "Err"
    /\ RepositoryOpen(fs, p).error.code = "NotFound"

\* The directories read_dir lists in the directory p, symbolic links
\* followed; none when the directory cannot be read.
ChildDirs(p) ==
    LET names == ReadDir(fs, Resolve(fs, p))
    IN  IF fs.dirs[Resolve(fs, p)] = "unreadable" THEN {}
        ELSE {q \in {Join(p, names[n]) : n \in 1..Len(names)} : IsDir(fs, q)}

\* The paths handed to Repository::open during the walk of tree t.
OpenedInTree(t) == {opened[k].path : k \in {n \in 1..Len(opened) : opened[n].tree = t}}

\* C22: every path handed to Repository::open is a directory, symbolic
\* links followed, never a regular file.  A directory for which open
\* answers NotFound gives no item of its own, neither a repository nor an
\* open error (an item with its path can only be the traversal error of
\* reading it), and when the walk has ended each directory listed in it
\* has been handed to open in the same walk.
C22_NotFoundYieldsNothingAndDescends ==
    \A k \in 1..Len(opened) :
        LET p == opened[k].path
            t == opened[k].tree
        IN  /\ IsDir(fs, p)
            /\ Resolve(fs, p) \notin fs.files
            /\ NotFoundAt(p) =>
                  /\ \A i \in 1..Len(items) :
                        (items[i].tree = t /\ items[i].path = p)
                            => TraversalError(items[i])
                  /\ pc = "exit" => ChildDirs(p) \subseteq OpenedInTree(t)

\* The walk of /w has ended: /w and /w/a are no repositories and gave no
\* item, their directories /w/a, /w/c, /w/l and /w/a/c were opened, and
\* the file /w/f was not.
C22_Witness ==
    /\ pc = "exit"
    /\ config.tag = "Ok" /\ Len(config.repos) >= 1 /\ config.repos[1].root = W
    /\ NotFoundAt(W) /\ NotFoundAt(A)
    /\ F \in fs.files
    /\ {W, A, AC, C, L} \subseteq OpenedInTree(1)
    /\ F \notin OpenedInTree(1)
    /\ \A i \in 1..Len(items) : items[i].tree = 1 => items[i].path \notin {W, A}
    /\ \E i \in 1..Len(items) : items[i].tree = 1 /\ items[i].path = L

-----------------------------------------------------------------------------
(* The order of the steps of scan, under SpecScan *)

\* The loop over the remotes of r comes to a GitHub remote when scan lets
\* it run: setting up the walk and listing the remotes succeed, and so
\* does the lookup of every remote before the first GitHub remote.
GitHubRemoteInReach(r) ==
    /\ r.walk_setup \notin {"RevwalkError", "SortingError"}
    /\ r.remotes.tag = "Ok"
    /\ RemotesLoop(r, 1, <<>>) = Ok(TRUE, RemotesLoop(r, 1, <<>>).calls)

\* The library calls of default-branch resolution and of the push.
LaterSteps == {"find_reference", "config", "get_string", "revparse_single", "push"}

\* C23: for a repository with a GitHub remote, scan answers the empty
\* sequence before it resolves the default branch or pushes a commit on
\* the walk: none of those calls was made, and none of their errors is
\* the outcome.
C23_GitHubCheckComesFirst ==
    LET repository == RepositoryOpen(fs, scan_path) IN
    (/\ pc = "returned"
     /\ repository.tag = "Ok"
     /\ GitHubRemoteInReach(repository.value.repo))
        => /\ out.tag = "Ok"
           /\ out.value = <<>>
           /\ \A k \in 1..Len(out.calls) : out.calls[k].fn \notin LaterSteps

-----------------------------------------------------------------------------
(* The shape of a remote HEAD's target, under SpecBranch *)

\* C24: when refs/remotes/origin/HEAD points into the namespace of another
\* remote (refs/remotes/upstream/dev), step 1 names no branch: with no
\* HEAD of upstream to name it either, the answer is never the commit of
\* dev.
C24_OriginStepNeedsOriginNamespace ==
    (/\ pc = "returned"
     /\ find_reference(repo, OriginHead)
           = SymbolicRef(RefsRemotes \o <<"upstream", "/">> \o Dev)
     /\ find_reference(repo, UpstreamHead).tag = "NotFound"
     /\ revparse_single(repo, Dev).tag = "Ok")
        => /\ StepName(repo, 1) = None
           /\ ~(out.tag = "Ok" /\ out.value = revparse_single(repo, Dev).oid)

\* A remote HEAD that is there but does not point to
\* refs/remotes/<remote>/<branch>: it is not symbolic, its target lies
\* outside refs/remotes/, or the branch is missing or empty.
Malformed(reference) ==
    \/ reference.tag = "Direct"
    \/ /\ reference.tag = "Symbolic"
       /\ \/ ~StartsWith(reference.target, RefsRemotes)
          \/ Len(splitn(4, reference.target)) < 4
          \/ splitn(4, reference.target)[4] = <<>>

\* C25: when refs/remotes/origin/HEAD is malformed, step 1 names no
\* branch and is no error: the call after the lookup of origin's HEAD is
\* the lookup of upstream's HEAD.
C25_MalformedHeadIsNoMatch ==
    (pc = "returned" /\ Malformed(find_reference(repo, OriginHead)))
        => /\ remote_head_to_local_branch(repo, <<"origin">>).tag = "Ok"
           /\ remote_head_to_local_branch(repo, <<"origin">>).value = None
           /\ Len(out.calls) >= 2
           /\ out.calls[2] = Call("find_reference", UpstreamHead)

-----------------------------------------------------------------------------
(* Repository handles during the batch scan, under Spec *)

\* The events of one kind among the first n.
EventsUpTo(n, op) == {k \in 1..n : handles[k].op = op}

\* The number of handles open after the first n events.
Held(n) ==
    Cardinality(EventsUpTo(n, "open")) - Cardinality(EventsUpTo(n, "drop"))

\* C26: at every point of the batch scan at most one repository handle is
\* open; a drop releases the handle acquired last; no handle is open when
\* ConfigRepoIter::next is called, between two items, or when the batch
\* has returned; and every discovered repository was acquired once.
C26_OneHandleAtATime ==
    /\ \A n \in 0..Len(handles) : Held(n) \in {0, 1}
    /\ \A n \in 1..Len(handles) :
          /\ handles[n].op = "next" => Held(n - 1) = 0
          /\ handles[n].op = "drop" =>
                /\ Held(n - 1) = 1
                /\ \E m \in EventsUpTo(n - 1, "open") :
                      /\ \A k \in EventsUpTo(n - 1, "open") : k <= m
                      /\ handles[m].gitdir = handles[n].gitdir
    /\ pc \in {"collect", "exit"} => Held(Len(handles)) = 0
    /\ Cardinality(EventsUpTo(Len(handles), "open"))
          = Cardinality({i \in 1..Len(items) : items[i].tag = "Ok"})

\* The batch has returned after two repositories, the scan of one of them
\* failed and that of the other succeeded; both handles were dropped before
\* the next call of next.
C26_Witness ==
    /\ pc = "exit"
    /\ \E i, j \in 1..Len(items) : Fails(items[i]) /\ items[i].tag = "Ok" /\ Succeeds(items[j])
    /\ Cardinality(EventsUpTo(Len(handles), "open")) >= 2
    /\ Cardinality(EventsUpTo(Len(handles), "drop")) >= 2
    /\ handles[Len(handles)] = NextCalled

-----------------------------------------------------------------------------
(* Termination of the iteration, under SpecLive *)

-----------------------------------------------------------------------------
(* The iterator after its end, under SpecIter *)

\* next has answered None at least once.
Ended == NoneAnswers(out) # {}

\* C28: once next has answered None every later answer is None; from then
\* on tree_iter is None and config_iter is exhausted, and a further call
\* changes neither, opens no path and yields nothing: no tree is walked
\* again.
C28_IteratorIsFused ==
    /\ [](\A i, j \in 1..Len(out) : (i < j /\ out[i] = None) => out[j] = None)
    /\ [](Ended => /\ tree_iter = None
                   /\ config_iter = Len(config.repos) + 1)
    /\ [][Ended => /\ opened' = opened
                   /\ items' = items
                   /\ tree_iter' = tree_iter
                   /\ config_iter' = config_iter]_vars

\* Two trees have yielded items and ended; next was called again after its
\* first None and answered None again.
C28_Witness ==
    /\ Len(config.repos) = 2
    /\ \E i, j \in 1..Len(items) : items[i].tree = 1 /\ items[j].tree = 2
    /\ Cardinality(NoneAnswers(out)) = MaxPolls
    /\ Len(out) = Len(items) + MaxPolls
    /\ out[Len(out)] = None /\ out[Len(out) - 1] = None
    /\ out[1] # None

-----------------------------------------------------------------------------
(* The panic of get_name, under Spec *)

\* C29: get_name never panics during a scan: no item is the panic, the
\* command never stops on it, and every path a name was derived for is
\* the root of its tree or lies beneath it as written, so that
\* strip_prefix succeeds on it.
C29_NamePanicUnreachable ==
    /\ pc # "panic"
    /\ \A i \in 1..Len(items) :
          /\ items[i].tag # "Panic"
          /\ items[i].tag = "Ok" =>
                /\ strip_prefix(items[i].path, TreeOf(items[i]).root).tag = "Ok"
                /\ \/ items[i].path = TreeOf(items[i]).root
                   \/ Beneath(items[i].path, TreeOf(items[i]).root)

\* Names were derived with a replace_root for the root of a tree itself
\* and for a repository reached through the symbolic link /w/l, whose
\* target /r lies outside the tree.
C29_Witness ==
    /\ pc = "exit"
    /\ \E i, j \in 1..Len(items) :
          /\ items[i].tag = "Ok"
          /\ IsSome(TreeOf(items[i]).replace_root)
          /\ items[i].path = TreeOf(items[i]).root
          /\ items[i].name = X
          /\ items[j].tag = "Ok"
          /\ IsSome(TreeOf(items[j]).replace_root)
          /\ items[j].path = L
          /\ IsLink(fs, L)
          /\ ~StartsWith(Resolve(fs, L), TreeOf(items[j]).root)
          /\ items[j].name = X \o <<"l">>

-----------------------------------------------------------------------------
(* The assertion on splitn, under SpecBranch *)

\* Target strings: every sequence of up to MaxTarget tokens, each a name
\* or the separator.
TargetStrings == UNION {[1..n -> {"refs", "x", "/"}] : n \in 0..MaxTarget}

\* The separators in s.
Slashes(s) == Cardinality({k \in 1..Len(s) : s[k] = "/"})

\* The pieces put together again, a separator between two.
RECURSIVE Rejoin(_)
Rejoin(pieces) ==
    IF Len(pieces) = 0 THEN <<>>
    ELSE IF Len(pieces) = 1 THEN pieces[1]
    ELSE pieces[1] \o <<"/">> \o Rejoin(Tail(pieces))

\* splitn(4, '/') on every target string: never more than four pieces, so
\* that nothing is left after the fourth; the pieces before the last hold
\* no separator, and the pieces joined give the string back.
SplitnYieldsAtMostFour ==
    \A t \in TargetStrings :
        LET iter == splitn(4, t) IN
        /\ Len(iter) \in 1..4
        /\ Len(iter) = 4 <=> Slashes(t) >= 3
        /\ \A k \in 1..(Len(iter) - 1) : Slashes(iter[k]) = 0
        /\ Rejoin(iter) = t

\* C30: the assertion `bug in splitn` never fails: splitn(4, '/') leaves
\* nothing after the fourth piece, whatever the target, and a branch with
\* separators is the fourth piece as a whole: for the target
\* refs/remotes/origin/feature/x the revision looked up is feature/x.
C30_SplitnAssertionHolds ==
    /\ SplitnYieldsAtMostFour
    /\ pc = "returned" =>
          /\ out.tag # "Panic"
          /\ remote_head_to_local_branch(repo, <<"origin">>).tag # "Panic"
          /\ remote_head_to_local_branch(repo, <<"upstream">>).tag # "Panic"
          /\ find_reference(repo, OriginHead)
                = SymbolicRef(RefsRemotes \o <<"origin", "/">> \o FeatureX)
                => /\ StepName(repo, 1) = Some(FeatureX)
                   /\ out.calls[2] = Call("revparse_single", FeatureX)

\* origin's HEAD points to refs/remotes/origin/feature/x and the answer is
\* the commit of feature/x.
C30_Witness ==
    /\ pc = "returned"
    /\ find_reference(repo, OriginHead)
          = SymbolicRef(RefsRemotes \o <<"origin", "/">> \o FeatureX)
    /\ Len(splitn(4, RefsRemotes \o <<"origin", "/">> \o FeatureX)) = 4
    /\ Slashes(RefsRemotes \o <<"origin", "/">> \o FeatureX) = 4
    /\ out.tag = "Ok"
    /\ out.value = OidOf(FeatureX)

====
